---- MODULE Spec2Model ----
(***************************************************************************)
(* A model of the sync engine: the HLC service, the in-memory row storage  *)
(* adapter with its LWW rule, the storage engine's local write pipeline,   *)
(* the sync loop with its serial queue, and the in-memory transport.       *)
(*                                                                         *)
(* Strings that the code formats and splits are modelled as sequences of   *)
(* tokens, so that formatting followed by parsing is computed and not      *)
(* assumed: a device id is a sequence of code units (45 is '-'), a         *)
(* collection id or row id is a sequence of tokens ("::" is the separator  *)
(* rowKey inserts).  Decimal formatting of a non-negative integer is kept  *)
(* as the integer itself.                                                  *)
(***************************************************************************)
EXTENDS Integers, Sequences, FiniteSets, TLC

\* ------------------------------------------------------------------ bounds
MaxCalls == 3

\* ------------------------------------------------------------ basic values
Hyphen == 45
DevA == <<65>>
DevB == <<66>>
DevZ == <<90>>
DevAB == <<65, 66>>
DevHyph == <<65, 45, 66>>

NoClock == <<>>
NullParent == <<>>

Max2(a, b) == IF a >= b THEN a ELSE b

RECURSIVE StrLess(_, _)
\* JavaScript's < on two strings: lexicographic on code units, a proper
\* prefix is smaller.
StrLess(a, b) ==
  IF Len(b) = 0 THEN FALSE
  ELSE IF Len(a) = 0 THEN TRUE
  ELSE IF Head(a) # Head(b) THEN Head(a) < Head(b)
  ELSE StrLess(Tail(a), Tail(b))

RECURSIVE SplitHyphen(_)
\* String.prototype.split("-") on a code-unit sequence: the segments
\* between hyphens (always at least one segment).
SplitHyphen(s) ==
  IF \A i \in 1..Len(s) : s[i] # Hyphen THEN << s >>
  ELSE LET i == CHOOSE j \in 1..Len(s) :
                  s[j] = Hyphen /\ \A k \in 1..(j - 1) : s[k] # Hyphen
       IN << SubSeq(s, 1, i - 1) >> \o SplitHyphen(SubSeq(s, i + 1, Len(s)))

\* ------------------------------------------------------------- hlc/clock.ts
\* formatClock: `${wallMs}-${counter}-${nodeId}`, kept as the fields a later
\* split("-") yields.  It throws on a negative number or an empty node id.
FormatOk(parts) ==
  parts.wallMs >= 0 /\ parts.counter >= 0 /\ Len(parts.nodeId) > 0

formatClock(parts) == << parts.wallMs, parts.counter >> \o SplitHyphen(parts.nodeId)

\* parseClock throws unless the string splits into exactly CLOCK_PARTS parts
\* and the third is non-empty.
CLOCK_PARTS == 3

ParseOk(clock) == Len(clock) = CLOCK_PARTS /\ Len(clock[3]) > 0

parseClock(clock) == [wallMs |-> clock[1], counter |-> clock[2], nodeId |-> clock[3]]

compareClocks(a, b) ==
  LET pa == parseClock(a)
      pb == parseClock(b)
  IN IF pa.wallMs # pb.wallMs THEN (IF pa.wallMs < pb.wallMs THEN -1 ELSE 1)
     ELSE IF pa.counter # pb.counter THEN (IF pa.counter < pb.counter THEN -1 ELSE 1)
     ELSE IF pa.nodeId = pb.nodeId THEN 0
     ELSE IF StrLess(pa.nodeId, pb.nodeId) THEN -1 ELSE 1

\* nextClock and nextClockFromRemote return [ok, clock]: ok is FALSE where
\* the code throws (a failed assertion in parseClock or formatClock).
Thrown == [ok |-> FALSE, clock |-> NoClock]

NextCounterKept(last) == last.counter

NextCounterSameWall(last) == last.counter + 1

nextClock(lastClock, nodeId, nowMs) ==
  IF nowMs < 0 THEN Thrown
  ELSE IF lastClock # NoClock /\ ~ParseOk(lastClock) THEN Thrown
  ELSE LET parts ==
             IF lastClock = NoClock
               THEN [wallMs |-> nowMs, counter |-> 0, nodeId |-> nodeId]
             ELSE LET last == parseClock(lastClock)
                  IN IF nowMs > last.wallMs
                       THEN [wallMs |-> nowMs, counter |-> 0, nodeId |-> nodeId]
                       ELSE [wallMs |-> last.wallMs,
                             counter |-> NextCounterSameWall(last),
                             nodeId |-> nodeId]
       IN IF FormatOk(parts) THEN [ok |-> TRUE, clock |-> formatClock(parts)]
          ELSE Thrown

nextClockFromRemote(lastLocalClock, remoteClock, nodeId, nowMs) ==
  IF nowMs < 0 THEN Thrown
  ELSE IF lastLocalClock # NoClock /\ ~ParseOk(lastLocalClock) THEN Thrown
  ELSE IF ~ParseOk(remoteClock) THEN Thrown
  ELSE LET hasLocal == lastLocalClock # NoClock
           remote == parseClock(remoteClock)
           \* Number.NEGATIVE_INFINITY is below every wall reading
           localWall == IF hasLocal THEN parseClock(lastLocalClock).wallMs ELSE -1
           localCounter == IF hasLocal THEN parseClock(lastLocalClock).counter ELSE 0
           maxWallMs == Max2(nowMs, Max2(localWall, remote.wallMs))
           counter ==
             IF maxWallMs = localWall /\ maxWallMs = remote.wallMs
               THEN Max2(localCounter, remote.counter) + 1
             ELSE IF maxWallMs = localWall THEN localCounter + 1
             ELSE IF maxWallMs = remote.wallMs THEN remote.counter + 1
             ELSE 0
           parts == [wallMs |-> maxWallMs, counter |-> counter, nodeId |-> nodeId]
       IN IF FormatOk(parts) THEN [ok |-> TRUE, clock |-> formatClock(parts)]
          ELSE Thrown

\* ------------------------------------------------- internal/serial-queue.ts
\* createSerialQueue: run() chains each operation behind the promise of the
\* one enqueued before it (await previous).  A chain is the sequence of the
\* operations not yet settled, in enqueue order; a settled operation leaves
\* the chain.  The i-th operation may begin once every earlier one settled.
SerialReadyNoAwait(chain, i) == i \in 1..Len(chain)

SerialReady(chain, i) == i = 1 /\ Len(chain) >= 1

RemoveAt(chain, i) == SubSeq(chain, 1, i - 1) \o SubSeq(chain, i + 1, Len(chain))

\* ------------------------------------------------------------ state
VARIABLES
  hNodeId,      \* HLC service: input.nodeId
  hStored,      \* HLC service: what input.storage holds
  hCurrent,     \* HLC service: let current
  hHasLoaded,   \* HLC service: let hasLoaded
  hQueue,       \* HLC service: the serial queue's chain of calls
  hIssued,      \* history: the clocks the service resolved, in order
  hCalls,       \* history: number of calls made
  hPeeks,       \* HLC service: the storage reads of peek() calls in flight
  aIdents,      \* adapter runs: the row identities callers write to
  aHlcs,        \* adapter runs: the HLC triples callers stamp rows with
  aRows,        \* InMemoryRowStorageAdapter: this.rows (key -> row)
  aSeen,        \* history: per identity, the HLC triples applied so far
  aReplaced,    \* history: some applyRows replaced a stored row
  aRejected,    \* history: some applyRows left a stale row unwritten
  aCall,        \* batch runs: the applyRows call last made and what it returned
  eNodeId,      \* engine run: the node id of input.clock
  eClock,       \* engine run: the last clock input.clock issued
  eRows,        \* engine run: the adapter's rows
  ePending,     \* engine run: the adapter's pendingOperations
  eNextSeq,     \* createEngine: let nextPendingSequence
  eQueue,       \* createEngine: the serial queue's chain of operations
  eResults,     \* history: the write results returned, in order
  eAppended,    \* history: the entries handed to appendPending, in order
  eCalls,       \* history: number of engine calls made
  eListeners,   \* createEngine: const listeners, in subscription order
  eEvents,      \* history: the events handed to listeners, in order
  sClients,     \* sync runs: the clients constructed
  sTransport,   \* sync runs: which TransportAdapter the loops talk to
  sScript,      \* sync runs: what a scripted TransportAdapter may answer, what
                \* each client's application may write, what the driver
                \* reports, whether the onError option is given
  sLoop,        \* createSyncEngine, per client: started, syncQueued, timer, queue
  sConn,        \* createConnectionManager, per client: let state
  sStore,       \* per client storage: rows, pending log, sequence, clock, KV cursor
  tServer,      \* InMemoryTransportAdapter: rows, lastCommittedTimestampMs
  tReturned,    \* history: per client, the rows the pulls of the in-memory transport returned
  gMax,         \* history: per row key, the local write with the greatest HLC
  gLeft,        \* how many local writes and interruptions the run still makes
  gQuiet,       \* the run has stopped writing and interrupting
  cState,       \* createConnectionManager alone: let state
  cListeners,   \* createConnectionManager alone: const listeners, in insertion order
  cDriver,      \* history: the state the driver delivered last ("none" before)
  cCalled,      \* history: the listeners the last driver callback called, in order
  cCount        \* history: number of driver callbacks

hlcVars == << hNodeId, hStored, hCurrent, hHasLoaded, hQueue, hIssued, hCalls, hPeeks >>

rowVars == << aIdents, aHlcs, aRows, aSeen, aReplaced, aRejected, aCall >>

engVars == << eNodeId, eClock, eRows, ePending, eNextSeq, eQueue, eResults,
             eAppended, eCalls, eListeners, eEvents >>

syncVars == << sClients, sTransport, sScript, sLoop, sConn, sStore, tServer, tReturned, gMax, gLeft, gQuiet >>

connVars == << cState, cListeners, cDriver, cCalled, cCount >>

vars == << hlcVars, rowVars, engVars, syncVars, connVars >>

\* what the actions of one component leave alone
notHlc == << rowVars, engVars, syncVars, connVars >>
notRows == << hlcVars, engVars, syncVars, connVars >>
notEng == << hlcVars, rowVars, syncVars, connVars >>
notSync == << hlcVars, rowVars, engVars, connVars >>
notConn == << hlcVars, rowVars, engVars, syncVars >>

\* a component that a specification does not run stays as constructed
IdleHlc ==
  /\ hNodeId = DevA
  /\ hStored = NoClock
  /\ hCurrent = NoClock
  /\ hHasLoaded = FALSE
  /\ hQueue = << >>
  /\ hIssued = << >>
  /\ hCalls = 0
  /\ hPeeks = << >>

IdleRows ==
  /\ aIdents = { }
  /\ aHlcs = { }
  /\ aRows = << >>
  /\ aSeen = << >>
  /\ aReplaced = FALSE
  /\ aRejected = FALSE
  /\ aCall = << >>

IdleEng ==
  /\ eNodeId = DevA
  /\ eClock = NoClock
  /\ eRows = << >>
  /\ ePending = << >>
  /\ eNextSeq = 1
  /\ eQueue = << >>
  /\ eResults = << >>
  /\ eAppended = << >>
  /\ eCalls = 0
  /\ eListeners = << >>
  /\ eEvents = << >>

IdleSync ==
  /\ sClients = { }
  /\ sTransport = "none"
  /\ sScript = [acks |-> { }, responses |-> { }, ops |-> << >>, driver |-> { },
                onError |-> FALSE]
  /\ sLoop = << >>
  /\ sConn = << >>
  /\ sStore = << >>
  /\ tServer = [rows |-> << >>, last |-> 0]
  /\ tReturned = [c \in sClients |-> { }]
  /\ gMax = << >>
  /\ gLeft = [writes |-> 0, stops |-> 0, events |-> 0]
  /\ gQuiet = FALSE

IdleConn ==
  /\ cState = "offline"
  /\ cListeners = << >>
  /\ cDriver = "none"
  /\ cCalled = << >>
  /\ cCount = 0

\* ----------------------------------------------------- core/hlc (service)
\* wall-clock readings (a negative one makes the code throw), batch sizes
NowVals == { -1, 0, 1 }
BatchCounts == { 0, 1, 2 }

RemoteClocks ==
  { formatClock([wallMs |-> w, counter |-> c, nodeId |-> DevZ]) :
      w \in { 0, 1 }, c \in { 1 } }
  \cup { << 1, 0 >> }

RECURSIVE BatchClocks(_, _, _, _)
\* the loop of nextBatch: count calls of nextClock, each on the previous
\* result; [ok, clocks].  It throws as soon as one nextClock throws.
BatchClocks(last, nodeId, nowMs, count) ==
  IF count = 0 THEN [ok |-> TRUE, clocks |-> << >>]
  ELSE LET first == nextClock(last, nodeId, nowMs)
       IN IF ~first.ok THEN [ok |-> FALSE, clocks |-> << >>]
          ELSE LET rest == BatchClocks(first.clock, nodeId, nowMs, count - 1)
               IN IF ~rest.ok THEN [ok |-> FALSE, clocks |-> << >>]
                  ELSE [ok |-> TRUE, clocks |-> << first.clock >> \o rest.clocks]

\* what one queued call computes from the loaded clock
HlcCompute(task, last) ==
  CASE task.op = "next" ->
         LET r == nextClock(last, hNodeId, task.now)
         IN [ok |-> r.ok, clocks |-> IF r.ok THEN << r.clock >> ELSE << >>]
    [] task.op = "nextBatch" -> BatchClocks(last, hNodeId, task.now, task.count)
    [] task.op = "nextFromRemote" ->
         LET r == nextClockFromRemote(last, task.remote, hNodeId, task.now)
         IN [ok |-> r.ok, clocks |-> IF r.ok THEN << r.clock >> ELSE << >>]

HlcTask(op, count, remote, now) ==
  [op |-> op, count |-> count, remote |-> remote, now |-> now,
   conc |-> Len(hQueue) > 0, pc |-> "waiting", readVal |-> NoClock,
   clocks |-> << >>]

\* next(nowMs?), nextBatch(count, nowMs?), nextFromRemote(remote, nowMs?):
\* the call enters the queue; nextBatch rejects count <= 0 before it does.
HlcCall ==
  /\ hCalls < MaxCalls
  /\ \E now \in NowVals :
       \/ hQueue' = Append(hQueue, HlcTask("next", 1, NoClock, now))
       \/ \E count \in BatchCounts :
            hQueue' = IF count <= 0 THEN hQueue
                      ELSE Append(hQueue, HlcTask("nextBatch", count, NoClock, now))
       \/ \E remote \in RemoteClocks :
            hQueue' = Append(hQueue, HlcTask("nextFromRemote", 1, remote, now))
  /\ hCalls' = hCalls + 1
  /\ UNCHANGED << hNodeId, hStored, hCurrent, hHasLoaded, hIssued, hPeeks, notHlc >>

\* the part of a queued call after load() returned `last`: compute, then
\* persist() sets current and starts storage.write
HlcAfterLoad(i, last) ==
  LET task == hQueue[i]
      r == HlcCompute(task, last)
  IN IF r.ok
       THEN /\ hQueue' = [hQueue EXCEPT ![i].pc = "writing", ![i].clocks = r.clocks]
            /\ hCurrent' = r.clocks[Len(r.clocks)]
       ELSE /\ hQueue' = RemoveAt(hQueue, i)
            /\ hCurrent' = last

\* a queued call begins: load() returns current at once when hasLoaded
HlcStartLoaded ==
  \E i \in 1 .. Len(hQueue) :
    /\ SerialReady(hQueue, i)
    /\ hQueue[i].pc = "waiting"
    /\ hHasLoaded
    /\ HlcAfterLoad(i, hCurrent)
    /\ UNCHANGED << hNodeId, hStored, hHasLoaded, hIssued, hCalls, hPeeks, notHlc >>

\* a queued call begins: load() awaits storage.read()
HlcStartRead ==
  \E i \in 1 .. Len(hQueue) :
    /\ SerialReady(hQueue, i)
    /\ hQueue[i].pc = "waiting"
    /\ ~hHasLoaded
    /\ hQueue' = [hQueue EXCEPT ![i].pc = "reading", ![i].readVal = hStored]
    /\ UNCHANGED << hNodeId, hStored, hCurrent, hHasLoaded, hIssued, hCalls, hPeeks, notHlc >>

\* storage.read() resolves: current = value read; hasLoaded = true
HlcLoaded ==
  \E i \in 1 .. Len(hQueue) :
    /\ hQueue[i].pc = "reading"
    /\ hHasLoaded' = TRUE
    /\ HlcAfterLoad(i, hQueue[i].readVal)
    /\ UNCHANGED << hNodeId, hStored, hIssued, hCalls, hPeeks, notHlc >>

IssuedEntries(task) ==
  [k \in 1 .. Len(task.clocks) |->
     [clock |-> task.clocks[k], op |-> task.op, remote |-> task.remote,
      now |-> task.now, conc |-> task.conc]]

\* storage.write() resolves: the call returns its clocks and settles
HlcWriteDone ==
  \E i \in 1 .. Len(hQueue) :
    /\ hQueue[i].pc = "writing"
    /\ hStored' = hQueue[i].clocks[Len(hQueue[i].clocks)]
    /\ hIssued' = hIssued \o IssuedEntries(hQueue[i])
    /\ hQueue' = RemoveAt(hQueue, i)
    /\ UNCHANGED << hNodeId, hCurrent, hHasLoaded, hCalls, hPeeks, notHlc >>

\* storage.write() rejects: the call rejects, current keeps the new clock
HlcWriteFail ==
  \E i \in 1 .. Len(hQueue) :
    /\ hQueue[i].pc = "writing"
    /\ hQueue' = RemoveAt(hQueue, i)
    /\ UNCHANGED << hNodeId, hStored, hCurrent, hHasLoaded, hIssued, hCalls, hPeeks, notHlc >>

InitHlc ==
  /\ hNodeId \in { DevA, DevHyph }
  /\ hStored \in { NoClock,
                   formatClock([wallMs |-> 1, counter |-> 1, nodeId |-> hNodeId]) }
  /\ hCurrent = NoClock
  /\ hHasLoaded = FALSE
  /\ hQueue = << >>
  /\ hIssued = << >>
  /\ hCalls = 0
  /\ hPeeks = << >>
  /\ IdleRows
  /\ IdleEng
  /\ IdleSync
  /\ IdleConn

NextHlc ==
  \/ HlcCall
  \/ HlcStartLoaded
  \/ HlcStartRead
  \/ HlcLoaded
  \/ HlcWriteDone
  \/ HlcWriteFail

SpecHlc == InitHlc /\ [][NextHlc]_vars

\* the order of two clock strings: compareClocks where both parse, the
\* numeric wall and counter fields where one does not
ClockBefore(a, b) ==
  IF ParseOk(a) /\ ParseOk(b) THEN compareClocks(a, b) = -1
  ELSE a[1] < b[1] \/ (a[1] = b[1] /\ a[2] < b[2])

\* C4: every clock the service issues is strictly greater, in HLC order,
\* than every clock it issued before (inside a batch too), and a clock
\* issued by nextFromRemote is strictly greater than the remote clock.
C4_HlcMonotonic ==
  /\ \A i, j \in 1 .. Len(hIssued) :
       i < j => ClockBefore(hIssued[i].clock, hIssued[j].clock)
  /\ \A i \in 1 .. Len(hIssued) :
       hIssued[i].op = "nextFromRemote" =>
         ClockBefore(hIssued[i].remote, hIssued[i].clock)

\* C4 witness: a call made while another was still unsettled, with a wall
\* reading below that of an earlier call, after a batch and a remote merge.
C4_Witness ==
  \E i, j, k \in 1 .. Len(hIssued) :
    /\ i < j
    /\ hIssued[j].conc
    /\ hIssued[j].now < hIssued[i].now
    /\ hIssued[k].op = "nextFromRemote"
    /\ \E b \in 1 .. Len(hIssued) : hIssued[b].op = "nextBatch"

\* ------------------------------------------------------- storage/shared.ts
\* rowKey: `${collectionId}::${id}`; a collection id or row id is, like every
\* string here, the sequence of its code units (58 is ':'), so two
\* spellings of the same key are the same sequence
KeySep == << 58, 58 >>

rowKey(collectionId, id) == collectionId \o KeySep \o id

compareHlcNoTieBreak(a, b) ==
  IF a.hlcTimestampMs # b.hlcTimestampMs
    THEN (IF a.hlcTimestampMs < b.hlcTimestampMs THEN -1 ELSE 1)
  ELSE IF a.hlcCounter # b.hlcCounter
    THEN (IF a.hlcCounter < b.hlcCounter THEN -1 ELSE 1)
  ELSE 0

compareHlc(a, b) ==
  IF a.hlcTimestampMs # b.hlcTimestampMs
    THEN (IF a.hlcTimestampMs < b.hlcTimestampMs THEN -1 ELSE 1)
  ELSE IF a.hlcCounter # b.hlcCounter
    THEN (IF a.hlcCounter < b.hlcCounter THEN -1 ELSE 1)
  ELSE IF a.hlcDeviceId = b.hlcDeviceId THEN 0
  ELSE IF StrLess(a.hlcDeviceId, b.hlcDeviceId) THEN -1 ELSE 1

\* --------------------------------------------- storage/in-memory-adapter.ts
DefaultNamespace == "default"
OtherNamespace == "other"

Row(ns, collectionId, id, parentId, data, tombstone, committed, wall, counter, dev) ==
  [namespace |-> ns, collectionId |-> collectionId, id |-> id,
   parentId |-> parentId, data |-> data, tombstone |-> tombstone,
   committedTimestampMs |-> committed,
   hlcTimestampMs |-> wall, hlcCounter |-> counter, hlcDeviceId |-> dev]

\* applyRows: written = !existing || compareHlc(row, existing) === 1
RowWinsOrTies(row, existing) == compareHlc(row, existing) >= 0

RowAlwaysWins(row, existing) == TRUE

RowWins(row, existing) == compareHlc(row, existing) = 1

Outcome(row, written) ==
  [written |-> written, collectionId |-> row.collectionId, id |-> row.id,
   parentId |-> row.parentId, tombstone |-> row.tombstone,
   committedTimestampMs |-> row.committedTimestampMs,
   hlcTimestampMs |-> row.hlcTimestampMs, hlcCounter |-> row.hlcCounter,
   hlcDeviceId |-> row.hlcDeviceId]

RECURSIVE ApplyLoop(_, _, _, _)
\* the for loop of applyRows over a working copy of the rows: [ok, rows,
\* outcomes]; ok is FALSE when a row of another namespace made it throw
ApplyLoop(working, namespace, batch, outcomes) ==
  IF Len(batch) = 0 THEN [ok |-> TRUE, rows |-> working, outcomes |-> outcomes]
  ELSE LET row == Head(batch)
           key == rowKey(row.collectionId, row.id)
           written == key \notin DOMAIN working \/ RowWins(row, working[key])
       IN IF row.namespace # namespace
            THEN [ok |-> FALSE, rows |-> working, outcomes |-> outcomes]
            ELSE ApplyLoop(IF written THEN (key :> row) @@ working ELSE working,
                           namespace, Tail(batch),
                           Append(outcomes, Outcome(row, written)))

\* an applyRows that writes into this.rows as it goes
applyRowsInPlace(stored, namespace, batch) ==
  ApplyLoop(stored, namespace, batch, << >>)

RECURSIVE AloneLoop(_, _, _, _, _)
\* a loop that compares every row with the rows stored before the call
AloneLoop(stored, working, namespace, batch, outcomes) ==
  IF Len(batch) = 0 THEN [ok |-> TRUE, rows |-> working, outcomes |-> outcomes]
  ELSE LET row == Head(batch)
           key == rowKey(row.collectionId, row.id)
           written == key \notin DOMAIN stored \/ RowWins(row, stored[key])
       IN IF row.namespace # namespace
            THEN [ok |-> FALSE, rows |-> working, outcomes |-> outcomes]
            ELSE AloneLoop(stored, IF written THEN (key :> row) @@ working ELSE working,
                           namespace, Tail(batch),
                           Append(outcomes, Outcome(row, written)))

applyRowsEachAlone(stored, namespace, batch) ==
  LET r == AloneLoop(stored, stored, namespace, batch, << >>)
  IN IF r.ok THEN r ELSE [ok |-> FALSE, rows |-> stored, outcomes |-> << >>]

\* applyRows(rows) on the store `stored`: this.rows = workingRows only when
\* the loop did not throw
applyRows(stored, namespace, batch) ==
  LET r == ApplyLoop(stored, namespace, batch, << >>)
  IN IF r.ok THEN r ELSE [ok |-> FALSE, rows |-> stored, outcomes |-> << >>]

\* ------------------------------------------------ the adapter driven alone
\* ("a", "b::c"), ("a::b", "c") and ("a", "x")
IdentA == << << 97 >>, << 98 >> \o KeySep \o << 99 >> >>
IdentAB == << << 97 >> \o KeySep \o << 98 >>, << 99 >> >>
IdentX == << << 97 >>, << 120 >> >>

Identities == { IdentA, IdentAB, IdentX }

\* HLC triples: equal wall and counter with three device ids, a counter
\* that is numerically above and lexicographically below another, a later
\* wall, a device id that is a prefix of another
LwwHlcs ==
  { << 1, 2, DevA >>, << 1, 2, DevB >>, << 1, 2, DevZ >>, << 1, 2, DevAB >>,
    << 1, 10, DevA >>, << 2, 0, DevA >>, << 2, 0, DevB >> }

RowsHlcs == { << 1, 2, DevA >>, << 1, 2, DevZ >>, << 2, 0, DevA >> }

Payloads == { [data |-> "d1", tombstone |-> FALSE],
              [data |-> "null", tombstone |-> TRUE] }

WriteRows(idents, hlcs) ==
  { Row(DefaultNamespace, i[1], i[2], NullParent, p.data, p.tombstone,
        h[1], h[1], h[2], h[3]) : i \in idents, h \in hlcs, p \in Payloads }

ForeignRows(idents, hlcs) ==
  { Row(OtherNamespace, i[1], i[2], NullParent, "d1", FALSE, h[1], h[1], h[2], h[3]) :
      i \in { CHOOSE j \in idents : TRUE }, h \in { CHOOSE m \in hlcs : TRUE } }

Batches(rows) == { << r >> : r \in rows } \cup { << r, q >> : r, q \in rows }

HlcOf(row) == << row.hlcTimestampMs, row.hlcCounter, row.hlcDeviceId >>

IdentOf(row) == << row.collectionId, row.id >>

\* the history of one call that did not throw
SeenAfter(seen, batch) ==
  [i \in DOMAIN seen |->
     seen[i] \cup { HlcOf(batch[k]) : k \in { n \in 1 .. Len(batch) : IdentOf(batch[n]) = i } }]

\* some caller (a local write, a remote apply) calls applyRows(batch)
ApplyRowsCall ==
  \E batch \in Batches(WriteRows(aIdents, aHlcs) \cup ForeignRows(aIdents, aHlcs)) :
    LET r == applyRows(aRows, DefaultNamespace, batch)
    IN /\ aRows' = r.rows
       /\ aSeen' = IF r.ok THEN SeenAfter(aSeen, batch) ELSE aSeen
       /\ aReplaced' = (aReplaced \/ \E k \in DOMAIN aRows : r.rows[k] # aRows[k])
       /\ aRejected' = (aRejected \/ \E n \in 1 .. Len(r.outcomes) : ~r.outcomes[n].written)
       /\ UNCHANGED << aIdents, aHlcs, aCall, notRows >>

\* the constructor: seedRows of the adapter's namespace are stored as given
InitRows ==
  /\ aIdents = Identities
  /\ aHlcs = RowsHlcs
  /\ \E seeds \in SUBSET { r \in WriteRows({ IdentA, IdentX }, { << 1, 2, DevZ >> }) : ~r.tombstone } :
       aRows = [k \in { rowKey(r.collectionId, r.id) : r \in seeds } |->
                  CHOOSE r \in seeds : rowKey(r.collectionId, r.id) = k]
  /\ aSeen = [i \in aIdents |-> { }]
  /\ aReplaced = FALSE
  /\ aRejected = FALSE
  /\ aCall = << >>
  /\ IdleHlc
  /\ IdleEng
  /\ IdleSync
  /\ IdleConn

\* all writes go to one identity
InitLww ==
  /\ \E i \in Identities : aIdents = { i }
  /\ aHlcs = LwwHlcs
  /\ aRows = << >>
  /\ aSeen = [i \in aIdents |-> { }]
  /\ aReplaced = FALSE
  /\ aRejected = FALSE
  /\ aCall = << >>
  /\ IdleHlc
  /\ IdleEng
  /\ IdleSync
  /\ IdleConn

NextRows ==
  \/ ApplyRowsCall

SpecRows == InitRows /\ [][NextRows]_vars

SpecLww == InitLww /\ [][NextRows]_vars

\* the HLC order as the data model states it: wall, then counter, both
\* numeric, then the device id as a string
HlcGreater(h, g) ==
  \/ h[1] > g[1]
  \/ h[1] = g[1] /\ h[2] > g[2]
  \/ h[1] = g[1] /\ h[2] = g[2] /\ StrLess(g[3], h[3])

\* C2: the adapter holds at most one row per identity, and a call changes
\* the row stored under a key only to a row with a strictly greater HLC:
\* no stored row disappears and the stored HLC never decreases.
C2_ReplacedOnlyByGreater ==
  /\ [](\A k, m \in DOMAIN aRows : IdentOf(aRows[k]) = IdentOf(aRows[m]) => k = m)
  /\ [][\A k \in DOMAIN aRows :
          /\ k \in DOMAIN aRows'
          /\ aRows'[k] # aRows[k] => HlcGreater(HlcOf(aRows'[k]), HlcOf(aRows[k]))]_vars

\* C2 witness: a stored row was replaced, and a stale row was turned down
C2_Witness ==
  /\ aReplaced
  /\ aRejected
  /\ Cardinality(DOMAIN aRows) = 2

\* C3: whatever the order and the batching, the row stored for an identity
\* carries the greatest HLC triple applied to it so far.
C3_LwwMaximum ==
  \A i \in aIdents :
    aSeen[i] # { } =>
      /\ rowKey(i[1], i[2]) \in DOMAIN aRows
      /\ IdentOf(aRows[rowKey(i[1], i[2])]) = i
      /\ HlcOf(aRows[rowKey(i[1], i[2])]) \in aSeen[i]
      /\ \A h \in aSeen[i] :
           h = HlcOf(aRows[rowKey(i[1], i[2])])
           \/ HlcGreater(HlcOf(aRows[rowKey(i[1], i[2])]), h)

\* C3 witness: deviceA, deviceB and deviceZ wrote with equal wall and
\* counter, some of it arrived stale, and deviceZ's row is the one stored
C3_Witness ==
  \E i \in aIdents :
    /\ { << 1, 2, DevA >>, << 1, 2, DevB >>, << 1, 2, DevZ >> } = aSeen[i]
    /\ aRejected
    /\ aReplaced
    /\ HlcOf(aRows[rowKey(i[1], i[2])]) = << 1, 2, DevZ >>

\* ------------------------------------------- storage/shared.ts (pending)
RECURSIVE InsertBySequence(_, _)
InsertBySequence(sorted, op) ==
  IF Len(sorted) = 0 THEN << op >>
  ELSE IF sorted[Len(sorted)].sequence <= op.sequence THEN Append(sorted, op)
  ELSE Append(InsertBySequence(SubSeq(sorted, 1, Len(sorted) - 1), op),
              sorted[Len(sorted)])

RECURSIVE SortBySequence(_)
\* Array.prototype.sort((a, b) => a.sequence - b.sequence): a stable sort
SortBySequence(ops) ==
  IF Len(ops) = 0 THEN << >>
  ELSE InsertBySequence(SortBySequence(SubSeq(ops, 1, Len(ops) - 1)), ops[Len(ops)])

appendPendingOperations(destination, operations) ==
  IF Len(operations) = 0 THEN destination
  ELSE SortBySequence(destination \o operations)

getPendingOperations(operations, limit) ==
  SubSeq(operations, 1, IF limit < Len(operations) THEN Max2(0, limit) ELSE Len(operations))

removePendingOperationsBefore(operations, sequenceInclusive) ==
  LET Keep(op) == op.sequence >= sequenceInclusive
  IN SelectSeq(operations, Keep)

removePendingOperationsThrough(operations, sequenceInclusive) ==
  LET Keep(op) == op.sequence > sequenceInclusive
  IN SelectSeq(operations, Keep)

\* ------------------------------------------------------------ core/engine.ts
\* an options.parentId that is undefined (no string holds the unit -1)
Absent == << -1 >>

\* InMemoryRowStorageAdapter.query: the rows matching the query (AnyId and
\* AnyParent stand for an undefined query.id and query.parentId)
AnyId == << -1 >>
AnyParent == << -1 >>

\* a query that does not filter by parentId
queryAnyParent(rows, collectionId, id, parentId, includeTombstones) ==
  { rows[k] : k \in { m \in DOMAIN rows :
      /\ rows[m].collectionId = collectionId
      /\ id = AnyId \/ rows[m].id = id
      /\ includeTombstones \/ ~rows[m].tombstone } }

query(rows, collectionId, id, parentId, includeTombstones) ==
  { rows[k] : k \in { m \in DOMAIN rows :
      /\ rows[m].collectionId = collectionId
      /\ id = AnyId \/ rows[m].id = id
      /\ parentId = AnyParent \/ rows[m].parentId = parentId
      /\ includeTombstones \/ ~rows[m].tombstone } }

\* queryRow: rows[0] of the query by id, NoRow when it is empty
NoRow == [namespace |-> "none"]

queryRow(rows, collectionId, id, includeTombstones) ==
  LET found == query(rows, collectionId, id, AnyParent, includeTombstones)
  IN IF found = { } THEN NoRow ELSE CHOOSE r \in found : TRUE

ParentDropped(existing) == NullParent

\* existing?.parentId ?? null
ParentOf(existing) == IF existing = NoRow THEN NullParent ELSE existing.parentId

Intent(kind, collectionId, id, parentId, data) ==
  [kind |-> kind, collectionId |-> collectionId, id |-> id,
   parentId |-> parentId, data |-> data]

\* resolveAtomicIntents, one operation: a put without parentId and a delete
\* read the stored row (tombstones included) for its parentId
ResolveIntent(rows, operation) ==
  IF operation.type = "put"
    THEN Intent("put", operation.collectionId, operation.id,
                IF operation.parentId = Absent
                  THEN ParentOf(queryRow(rows, operation.collectionId, operation.id, TRUE))
                  ELSE operation.parentId,
                operation.data)
    ELSE Intent("delete", operation.collectionId, operation.id,
                ParentOf(queryRow(rows, operation.collectionId, operation.id, TRUE)),
                "null")

\* a resolution in which an operation sees the parentId set by an earlier
\* put of the same batch
resolveAtomicIntentsInTurn(rows, operations) ==
  [k \in 1 .. Len(operations) |->
     LET alone == ResolveIntent(rows, operations[k])
         earlier == { j \in 1 .. (k - 1) :
                        /\ operations[j].collectionId = operations[k].collectionId
                        /\ operations[j].id = operations[k].id
                        /\ operations[j].type = "put"
                        /\ operations[j].parentId # Absent }
         latest == CHOOSE j \in earlier : \A n \in earlier : n <= j
     IN IF earlier = { } \/ (operations[k].type = "put" /\ operations[k].parentId # Absent)
          THEN alone
          ELSE [alone EXCEPT !.parentId = operations[latest].parentId]]

resolveAtomicIntents(rows, operations) ==
  [k \in 1 .. Len(operations) |-> ResolveIntent(rows, operations[k])]

\* applyLocalIntents: intents.map((intent, index) => row stamped with clocks[index])
StampRows(intents, clocks, namespace) ==
  [k \in 1 .. Len(intents) |->
     LET parsed == parseClock(clocks[k])
     IN Row(namespace, intents[k].collectionId, intents[k].id, intents[k].parentId,
            IF intents[k].kind = "put" THEN intents[k].data ELSE "null",
            intents[k].kind = "delete",
            parsed.wallMs, parsed.wallMs, parsed.counter, parsed.nodeId)]

buildWriteResult(outcome) ==
  [collectionId |-> outcome.collectionId, id |-> outcome.id,
   parentId |-> outcome.parentId, tombstone |-> outcome.tombstone,
   committedTimestampMs |-> outcome.committedTimestampMs,
   hlcTimestampMs |-> outcome.hlcTimestampMs, hlcCounter |-> outcome.hlcCounter,
   hlcDeviceId |-> outcome.hlcDeviceId, applied |-> outcome.written]

\* the hint pushed for a written outcome: parentId only when it is truthy
\* (neither null nor the empty string)
HintOf(outcome) ==
  [collectionId |-> outcome.collectionId, id |-> outcome.id,
   parentId |-> IF outcome.parentId = NullParent THEN Absent ELSE outcome.parentId]

RECURSIVE WrittenHints(_)
\* the loop over the outcomes: if (!outcome.written) continue
WrittenHints(outcomes) ==
  IF Len(outcomes) = 0 THEN << >>
  ELSE (IF Head(outcomes).written THEN << HintOf(Head(outcomes)) >> ELSE << >>)
       \o WrittenHints(Tail(outcomes))

\* `${hint.collectionId}::${hint.id ?? ""}::${hint.parentId ?? ""}`
hintKey(hint) ==
  hint.collectionId \o KeySep \o hint.id \o KeySep
    \o (IF hint.parentId = Absent THEN << >> ELSE hint.parentId)

RECURSIVE UniqueLoop(_, _)
UniqueLoop(hints, seen) ==
  IF Len(hints) = 0 THEN << >>
  ELSE IF hintKey(Head(hints)) \in seen THEN UniqueLoop(Tail(hints), seen)
  ELSE << Head(hints) >> \o UniqueLoop(Tail(hints), seen \cup { hintKey(Head(hints)) })

uniqueInvalidationHints(hints) == UniqueLoop(hints, { })

RECURSIVE NotifyLoop(_, _, _, _)
\* for (const listener of listeners) listener(event), from listener k on:
\* [deliveries, threw]; a listener that throws ends the loop
NotifyLoop(listeners, k, source, hints) ==
  IF k > Len(listeners) THEN [deliveries |-> << >>, threw |-> FALSE]
  ELSE LET delivery == [listener |-> k, source |-> source, hints |-> hints]
       IN IF listeners[k].throws
            THEN [deliveries |-> << delivery >>, threw |-> TRUE]
            ELSE LET rest == NotifyLoop(listeners, k + 1, source, hints)
                 IN [deliveries |-> << delivery >> \o rest.deliveries,
                     threw |-> rest.threw]

\* notify(source, hints): nothing for no hints
notify(listeners, source, hints) ==
  IF Len(hints) = 0 THEN [deliveries |-> << >>, threw |-> FALSE]
  ELSE NotifyLoop(listeners, 1, source, hints)

PendingOperation(sequence, row) ==
  [sequence |-> sequence, type |-> IF row.tombstone THEN "delete" ELSE "put",
   collectionId |-> row.collectionId, id |-> row.id, parentId |-> row.parentId,
   data |-> row.data, hlcTimestampMs |-> row.hlcTimestampMs,
   hlcCounter |-> row.hlcCounter, hlcDeviceId |-> row.hlcDeviceId]

\* applyLocalIntents: if (!outcome.written) continue
NeedsPendingAlways(outcome) == TRUE

NeedsPending(outcome) == outcome.written

RECURSIVE PendingFor(_, _, _)
\* the loop over the outcomes: one entry, with the next sequence, per row
\* that needs one
PendingFor(rows, outcomes, nextSequence) ==
  IF Len(outcomes) = 0 THEN << >>
  ELSE IF NeedsPending(Head(outcomes))
    THEN << PendingOperation(nextSequence, Head(rows)) >>
         \o PendingFor(Tail(rows), Tail(outcomes), nextSequence + 1)
    ELSE PendingFor(Tail(rows), Tail(outcomes), nextSequence)

\* ------------------------------------------------- the engine driven alone
MaxEngineCalls == 3

\* "books", "b1", "b2", "p1"
Books == << 98, 111, 111, 107, 115 >>
B1 == << 98, 49 >>
B2 == << 98, 50 >>
P1 == << 112, 49 >>

EngineNowVals == { 0, 1 }

PutOp(id, data, parentId) ==
  [type |-> "put", collectionId |-> Books, id |-> id, data |-> data, parentId |-> parentId]

DeleteOp(id) ==
  [type |-> "delete", collectionId |-> Books, id |-> id, data |-> "null",
   parentId |-> Absent]

PutOps ==
  { PutOp(id, "d1", parent) : id \in { B1, B2 }, parent \in { Absent, P1 } }
  \cup { PutOp(B1, "d2", NullParent) }

DeleteOps == { DeleteOp(id) : id \in { B1, B2 } }

BatchOps ==
  { << PutOp(B1, "d1", Absent), PutOp(B1, "d2", Absent) >>,
    << PutOp(B1, "d2", P1), DeleteOp(B1) >>,
    << DeleteOp(B1), PutOp(B2, "d1", P1) >> }

RemoteBatches ==
  LET live(h) == Row(DefaultNamespace, Books, B1, P1, "r1", FALSE, 7, h[1], h[2], h[3])
      dead(h) == Row(DefaultNamespace, Books, B1, NullParent, "null", TRUE, 8, h[1], h[2], h[3])
  IN { << live(<< 1, 5, DevZ >>) >>, << dead(<< 1, 5, DevZ >>) >>,
       << dead(<< 0, 0, DevZ >>), live(<< 1, 0, DevB >>) >> }

EngTask(kind, ops, rows) ==
  [kind |-> kind, ops |-> ops, rows |-> rows, pc |-> "waiting",
   intents |-> << >>, built |-> << >>, outcomes |-> << >>, results |-> << >>]

\* put, delete, deleteAllWithParent, batchLocal, applyRemote: queue.run(...)
EngCall ==
  /\ eCalls < MaxEngineCalls
  /\ \/ \E op \in PutOps : eQueue' = Append(eQueue, EngTask("put", << op >>, << >>))
     \/ \E op \in DeleteOps : eQueue' = Append(eQueue, EngTask("delete", << op >>, << >>))
     \/ eQueue' = Append(eQueue, EngTask("deleteAllWithParent",
                           << [type |-> "deleteAllWithParent", collectionId |-> Books,
                               id |-> AnyId, data |-> "null", parentId |-> P1] >>, << >>))
     \/ \E ops \in BatchOps : eQueue' = Append(eQueue, EngTask("batchLocal", ops, << >>))
     \/ \E rows \in RemoteBatches :
          eQueue' = Append(eQueue, EngTask("applyRemote", << >>, rows))
  /\ eCalls' = eCalls + 1
  /\ UNCHANGED << eNodeId, eClock, eRows, ePending, eNextSeq, eResults, eAppended, eListeners, eEvents, notEng >>

Orderings(set) ==
  { q \in [1 .. Cardinality(set) -> set] : \A a, b \in 1 .. Cardinality(set) : a # b => q[a] # q[b] }

\* the head operation begins: resolveAtomicIntents reads the store
EngResolve ==
  \E i \in 1 .. Len(eQueue) :
    /\ SerialReady(eQueue, i)
    /\ eQueue[i].pc = "waiting"
    /\ eQueue[i].kind \in { "put", "delete", "batchLocal" }
    /\ eQueue' = [eQueue EXCEPT ![i].pc = "resolved",
                                ![i].intents = resolveAtomicIntents(eRows, eQueue[i].ops)]
    /\ UNCHANGED << eNodeId, eClock, eRows, ePending, eNextSeq, eResults, eAppended,
                    eCalls, eListeners, eEvents, notEng >>

\* deleteAllWithParent begins: one delete intent per live row of the parent,
\* in the order the adapter lists them; no live row, no write
EngResolveParent ==
  \E i \in 1 .. Len(eQueue) :
    /\ SerialReady(eQueue, i)
    /\ eQueue[i].pc = "waiting"
    /\ eQueue[i].kind = "deleteAllWithParent"
    /\ LET liveRows == query(eRows, eQueue[i].ops[1].collectionId, AnyId,
                             eQueue[i].ops[1].parentId, FALSE)
       IN IF liveRows = { } THEN eQueue' = RemoveAt(eQueue, i)
          ELSE \E order \in Orderings(liveRows) :
                 eQueue' = [eQueue EXCEPT
                   ![i].pc = "resolved",
                   ![i].intents = [k \in 1 .. Len(order) |->
                      Intent("delete", order[k].collectionId, order[k].id,
                             order[k].parentId, "null")]]
    /\ UNCHANGED << eNodeId, eClock, eRows, ePending, eNextSeq, eResults, eAppended,
                    eCalls, eListeners, eEvents, notEng >>

\* applyLocalIntents: await input.clock.nextBatch(intents.length), then the
\* rows are stamped (parseClock of each clock); either may throw
EngAlloc ==
  \E i \in 1 .. Len(eQueue), now \in EngineNowVals :
    /\ eQueue[i].pc = "resolved"
    /\ LET r == BatchClocks(eClock, eNodeId, now, Len(eQueue[i].intents))
       IN /\ eClock' = IF r.ok THEN r.clocks[Len(r.clocks)] ELSE eClock
          /\ eQueue' =
               IF r.ok /\ \A k \in 1 .. Len(r.clocks) : ParseOk(r.clocks[k])
                 THEN [eQueue EXCEPT ![i].pc = "stamped",
                         ![i].built = StampRows(eQueue[i].intents, r.clocks, DefaultNamespace)]
                 ELSE RemoveAt(eQueue, i)
    /\ UNCHANGED << eNodeId, eRows, ePending, eNextSeq, eResults, eAppended, eCalls, eListeners, eEvents, notEng >>

\* applyLocalIntents: await input.adapter.applyRows(rows)
EngApply ==
  \E i \in 1 .. Len(eQueue) :
    /\ eQueue[i].pc = "stamped"
    /\ LET r == applyRows(eRows, DefaultNamespace, eQueue[i].built)
       IN /\ eRows' = r.rows
          /\ eQueue' = [eQueue EXCEPT ![i].pc = "applied", ![i].outcomes = r.outcomes]
    /\ UNCHANGED << eNodeId, eClock, ePending, eNextSeq, eResults, eAppended, eCalls, eListeners, eEvents, notEng >>

\* applyLocalIntents after applyRows: the results and the pending entries
\* are built, appendPending is called when there are entries; with none the
\* operation notifies and returns at once
EngAppend ==
  \E i \in 1 .. Len(eQueue) :
    /\ eQueue[i].pc = "applied"
    /\ LET results == [k \in 1 .. Len(eQueue[i].outcomes) |->
                         buildWriteResult(eQueue[i].outcomes[k])]
           pendingOperations == PendingFor(eQueue[i].built, eQueue[i].outcomes, eNextSeq)
       IN /\ eNextSeq' = eNextSeq + Len(pendingOperations)
          /\ ePending' = appendPendingOperations(ePending, pendingOperations)
          /\ eAppended' = eAppended \o pendingOperations
          /\ IF Len(pendingOperations) > 0
               THEN /\ eQueue' = [eQueue EXCEPT ![i].pc = "appended", ![i].results = results]
                    /\ eResults' = eResults
               ELSE /\ eQueue' = RemoveAt(eQueue, i)
                    /\ eResults' = eResults \o results
    /\ UNCHANGED << eNodeId, eClock, eRows, eCalls, eListeners, eEvents, notEng >>

\* appendPending resolved (or applyRows, for applyRemote): notify, return;
\* a listener that throws makes the operation reject
EngFinish ==
  \E i \in 1 .. Len(eQueue) :
    /\ eQueue[i].pc = "appended"
    /\ LET notified == notify(eListeners,
                              IF eQueue[i].kind = "applyRemote" THEN "remote" ELSE "local",
                              uniqueInvalidationHints(WrittenHints(eQueue[i].outcomes)))
       IN /\ eEvents' = eEvents \o notified.deliveries
          /\ eResults' = IF notified.threw THEN eResults ELSE eResults \o eQueue[i].results
    /\ eQueue' = RemoveAt(eQueue, i)
    /\ UNCHANGED << eNodeId, eClock, eRows, ePending, eNextSeq, eAppended, eCalls,
                    eListeners, notEng >>

\* applyRemote begins: applyRows on the rows as they came
EngRemoteApply ==
  \E i \in 1 .. Len(eQueue) :
    /\ SerialReady(eQueue, i)
    /\ eQueue[i].pc = "waiting"
    /\ eQueue[i].kind = "applyRemote"
    /\ LET r == applyRows(eRows, DefaultNamespace, eQueue[i].rows)
       IN /\ eRows' = r.rows
          /\ eQueue' = IF r.ok
                         THEN [eQueue EXCEPT ![i].pc = "appended", ![i].outcomes = r.outcomes]
                         ELSE RemoveAt(eQueue, i)
    /\ UNCHANGED << eNodeId, eClock, ePending, eNextSeq, eResults, eAppended, eCalls, eListeners, eEvents, notEng >>

\* removePendingThrough: passed to the adapter, not through the queue
EngRemovePendingThrough ==
  \E sequenceInclusive \in 1 .. (eNextSeq - 1) :
    /\ Len(ePending) > 0
    /\ ePending' = removePendingOperationsThrough(ePending, sequenceInclusive)
    /\ UNCHANGED << eNodeId, eClock, eRows, eNextSeq, eQueue, eResults, eAppended,
                    eCalls, eListeners, eEvents, notEng >>

InitEng ==
  /\ eNodeId \in { DevA, DevHyph }
  /\ eClock = NoClock
  /\ eRows = << >>
  /\ ePending = << >>
  /\ eNextSeq = 1
  /\ eQueue = << >>
  /\ eResults = << >>
  /\ eAppended = << >>
  /\ eCalls = 0
  /\ eListeners = << >>
  /\ eEvents = << >>
  /\ IdleHlc
  /\ IdleRows
  /\ IdleSync
  /\ IdleConn

NextEng ==
  \/ EngCall
  \/ EngResolve
  \/ EngResolveParent
  \/ EngAlloc
  \/ EngApply
  \/ EngAppend
  \/ EngFinish
  \/ EngRemoteApply
  \/ EngRemovePendingThrough

SpecEng == InitEng /\ [][NextEng]_vars

\* the write results produced so far: those returned, then those of the
\* operation that has appended and not yet returned
RECURSIVE ResultsInFlight(_)
ResultsInFlight(chain) ==
  IF Len(chain) = 0 THEN << >>
  ELSE (IF Head(chain).pc = "appended" THEN Head(chain).results ELSE << >>)
       \o ResultsInFlight(Tail(chain))

IsApplied(result) == result.applied

AppliedResults == SelectSeq(eResults \o ResultsInFlight(eQueue), IsApplied)

InPendingLog(op) == \E k \in 1 .. Len(ePending) : ePending[k] = op

\* C5: the pending entries appended so far are, one for one and in order,
\* the write results with applied = TRUE: same identity, same HLC triple,
\* delete for a tombstone and put otherwise; their sequences increase in
\* apply order and the adapter's log keeps that order.
C5_PendingMirrorsWrites ==
  /\ Len(eAppended) = Len(AppliedResults)
  /\ \A k \in 1 .. Len(eAppended) :
       /\ k <= Len(AppliedResults)
       /\ eAppended[k].collectionId = AppliedResults[k].collectionId
       /\ eAppended[k].id = AppliedResults[k].id
       /\ eAppended[k].hlcTimestampMs = AppliedResults[k].hlcTimestampMs
       /\ eAppended[k].hlcCounter = AppliedResults[k].hlcCounter
       /\ eAppended[k].hlcDeviceId = AppliedResults[k].hlcDeviceId
       /\ (eAppended[k].type = "delete") = AppliedResults[k].tombstone
  /\ \A k \in 1 .. (Len(eAppended) - 1) : eAppended[k].sequence < eAppended[k + 1].sequence
  /\ ePending = SelectSeq(eAppended, InPendingLog)

\* C5 witness: a stale local write returned applied = FALSE, two others
\* were applied, one of them a tombstone, and two entries are in the log
C5_Witness ==
  /\ \E k \in 1 .. Len(eResults) : ~eResults[k].applied
  /\ \E k \in 1 .. Len(eResults) : eResults[k].applied /\ eResults[k].tombstone
  /\ Len(eAppended) >= 2
  /\ Len(ePending) >= 1
  /\ eQueue = << >>

\* ----------------------------------- transport/in-memory-adapter (server)
\* a sync cursor; undefined is NoCursor
Cursor(committed, collectionId, id) ==
  [committedTimestampMs |-> committed, collectionId |-> collectionId, id |-> id]

NoCursor == [absent |-> TRUE]

\* the sign of a string comparison as the code writes it: a < b ? -1 : 1
LessSign(a, b) == IF StrLess(a, b) THEN -1 ELSE 1

compareRowOrder(a, b) ==
  IF a.committedTimestampMs # b.committedTimestampMs
    THEN a.committedTimestampMs - b.committedTimestampMs
  ELSE IF a.collectionId # b.collectionId THEN LessSign(a.collectionId, b.collectionId)
  ELSE IF a.id = b.id THEN 0
  ELSE LessSign(a.id, b.id)

compareRowToCursor(row, cursor) ==
  IF row.committedTimestampMs # cursor.committedTimestampMs
    THEN row.committedTimestampMs - cursor.committedTimestampMs
  ELSE IF row.collectionId # cursor.collectionId
    THEN LessSign(row.collectionId, cursor.collectionId)
  ELSE IF row.id = cursor.id THEN 0
  ELSE LessSign(row.id, cursor.id)

toCursor(row) == Cursor(row.committedTimestampMs, row.collectionId, row.id)

RECURSIVE SortRows(_)
\* [...].sort(compareRowOrder) on rows of distinct keys
SortRows(rows) ==
  IF rows = { } THEN << >>
  ELSE LET first == CHOOSE r \in rows : \A q \in rows : compareRowOrder(r, q) <= 0
       IN << first >> \o SortRows(rows \ { first })

\* the filter of pull: a row at or before the request's cursor is left out
AfterCursor(row, cursor) == cursor = NoCursor \/ compareRowToCursor(row, cursor) > 0

\* pull({cursor, limit}) on the server's rows
pull(rows, cursor, limit) ==
  LET sorted == SortRows({ rows[k] : k \in { m \in DOMAIN rows : AfterCursor(rows[m], cursor) } })
      page == SubSeq(sorted, 1, IF Max2(0, limit) < Len(sorted) THEN Max2(0, limit) ELSE Len(sorted))
  IN [changes |-> page,
      nextCursor |-> IF Len(page) > 0 THEN toCursor(page[Len(page)]) ELSE cursor,
      hasMore |-> Len(sorted) > Len(page)]

\* nextCommittedTimestampMs: max(lastCommittedTimestampMs + 1, floor(now()))
nextCommittedNoBump(last, nowMs) == Max2(last, nowMs)

\* a stamp taken from the clock alone
nextCommittedAtNow(last, nowMs) == nowMs

nextCommittedTimestampMs(last, nowMs) == Max2(last + 1, nowMs)

\* the row push builds from one pending operation
PushedRow(operation, namespace, committed) ==
  Row(namespace, operation.collectionId, operation.id, operation.parentId,
      IF operation.type = "put" THEN operation.data ELSE "null",
      operation.type # "put", committed,
      operation.hlcTimestampMs, operation.hlcCounter, operation.hlcDeviceId)

RECURSIVE PushLoop(_, _, _, _)
\* the for loop of push over request.operations: [rows, last, ack]
PushLoop(server, operations, ack, nowMs) ==
  IF Len(operations) = 0 THEN [rows |-> server.rows, last |-> server.last, ack |-> ack]
  ELSE LET operation == Head(operations)
           committed == nextCommittedTimestampMs(server.last, nowMs)
           row == PushedRow(operation, DefaultNamespace, committed)
           key == rowKey(row.collectionId, row.id)
           written == key \notin DOMAIN server.rows \/ compareHlc(row, server.rows[key]) = 1
       IN PushLoop([rows |-> IF written THEN (key :> row) @@ server.rows ELSE server.rows,
                    last |-> committed],
                   Tail(operations), Max2(ack, operation.sequence), nowMs)

\* push({operations}): an empty request answers {} (ack 0 stands for no ack)
push(server, operations, nowMs) ==
  IF Len(operations) = 0 THEN [rows |-> server.rows, last |-> server.last, ack |-> 0]
  ELSE PushLoop(server, operations, operations[1].sequence, nowMs)

\* ------------------------------------------------------ core/sync-engine.ts
\* input.pushBatchSize and input.pullLimit of the loops modelled
PushBatchSize == 2
PullLimit == 1

\* a KV value that fails isSyncCursor
BadCursor == [shape |-> "invalid"]

isSyncCursor(value) == DOMAIN value = { "committedTimestampMs", "collectionId", "id" }

cursorsEqual(a, b) ==
  IF a = NoCursor /\ b = NoCursor THEN TRUE
  ELSE IF a = NoCursor \/ b = NoCursor THEN FALSE
  ELSE /\ a.committedTimestampMs = b.committedTimestampMs
       /\ a.collectionId = b.collectionId
       /\ a.id = b.id

\* readCursor: the KV value, undefined when it is absent or malformed
readCursor(value) ==
  IF value = NoCursor THEN NoCursor
  ELSE IF ~isSyncCursor(value) THEN NoCursor
  ELSE value

\* runPullPhase: nextCursor !== undefined && !cursorsEqual(cursor, nextCursor)
CursorNeverAdvances(cursor, nextCursor) == FALSE

CursorAlwaysAdvances(cursor, nextCursor) == TRUE

CursorDidAdvance(cursor, nextCursor) ==
  nextCursor # NoCursor /\ ~cursorsEqual(cursor, nextCursor)

\* a transport response to pull; NoResponse before one arrived
Response(changes, nextCursor, hasMore) ==
  [changes |-> changes, nextCursor |-> nextCursor, hasMore |-> hasMore, received |-> TRUE]

NoResponse ==
  [changes |-> << >>, nextCursor |-> NoCursor, hasMore |-> FALSE, received |-> FALSE]

\* an operation on the loop's serial queue, with the locals of the cycle it
\* runs: pending (batch), lastFirstPendingSequence (0 for undefined),
\* acknowledgedThroughSequence (0 for undefined), cursor, response.
\* History kept with it: whether started && isConnected() held when the
\* transport call in flight was begun, whether this is the first pull of
\* the phase, the last nextCursor a response carried, whether the cycle threw.
LoopTask(kind, changes) ==
  [kind |-> kind, pc |-> "queued", changes |-> changes, batch |-> << >>,
   lastFirst |-> 0, ack |-> 0, cursor |-> NoCursor, response |-> NoResponse,
   activeAtCall |-> TRUE, firstPull |-> TRUE, lastNext |-> NoCursor, threw |-> FALSE]

\* the loop as constructed: started, syncQueued, timer, the serial queue and
\* the two subscriptions it holds (unsubscribeConnection,
\* unsubscribeTransport).  History kept with it: the errors handed to
\* input.onError, whether a needsAuth event arrived since the connection
\* state last changed, whether a stop() has resolved since the last start().
NewLoop ==
  [started |-> FALSE, syncQueued |-> FALSE, timer |-> FALSE, queue |-> << >>,
   listeners |-> { }, errors |-> << >>, authAsked |-> FALSE, stopResolved |-> FALSE]

\* reportError: input.onError(error) when the option was given
reportError(loop, error) ==
  IF sScript.onError THEN [loop EXCEPT !.errors = Append(@, error)] ELSE loop

isConnected(c) == sConn[c] = "connected"

Active(c) == sLoop[c].started /\ isConnected(c)

\* a queueSyncCycle that queues nothing
queueSyncCycleNever(loop, connected, clearExistingTimer) == loop

\* queueSyncCycle(clearExistingTimer) on the loop `loop`
queueSyncCycle(loop, connected, clearExistingTimer) ==
  IF ~loop.started \/ ~connected THEN loop
  ELSE LET cleared == IF clearExistingTimer THEN [loop EXCEPT !.timer = FALSE] ELSE loop
       IN IF cleared.syncQueued THEN cleared
          ELSE [cleared EXCEPT !.syncQueued = TRUE,
                               !.queue = Append(@, LoopTask("cycle", << >>))]

\* a scheduleNextCycle that sets no timer
scheduleNextCycleNever(loop, connected) == loop

\* scheduleNextCycle: clearTimer, setTimeout
scheduleNextCycle(loop, connected) ==
  IF ~loop.started \/ ~connected THEN loop ELSE [loop EXCEPT !.timer = TRUE]

SetTask(loop, i, task) == [loop EXCEPT !.queue[i] = task]

DropTask(loop, i) == [loop EXCEPT !.queue = RemoveAt(@, i)]

\* the cycle leaves its phases: the finally block of the queued operation
\* runs next
ToFinally(loop, i, threw) ==
  LET moved == SetTask(loop, i, [loop.queue[i] EXCEPT !.pc = "finally", !.threw = threw,
                                                      !.batch = << >>])
  IN IF threw THEN reportError(moved, "cycle") ELSE moved

\* a push phase that reads the pending log again after any response
AfterPushAgain(c, loop, i) ==
  SetTask(loop, i, [loop.queue[i] EXCEPT
    !.pc = "getPending", !.ack = 0,
    !.batch = getPendingOperations(sStore[c].pending, PushBatchSize)])

\* runSyncCycle after runPushPhase returned: the check, then runPullPhase
\* calls readCursor (storage.getKV)
AfterPush(c, loop, i) ==
  IF ~(loop.started /\ isConnected(c)) THEN ToFinally(loop, i, FALSE)
  ELSE LET read == SetTask(loop, i, [loop.queue[i] EXCEPT
                       !.pc = "readCursor", !.batch = << >>, !.ack = 0,
                       !.cursor = readCursor(sStore[c].kv)])
       IN IF sStore[c].kv # NoCursor /\ ~isSyncCursor(sStore[c].kv)
            THEN reportError(read, "cursor") ELSE read

\* the while condition of runPushPhase held: storage.getPending is called
CallGetPending(c, loop, i) ==
  SetTask(loop, i, [loop.queue[i] EXCEPT
    !.pc = "getPending", !.ack = 0,
    !.batch = getPendingOperations(sStore[c].pending, PushBatchSize)])

\* the while condition of runPullPhase held: transport.pull is called
CallPull(c, loop, i, first) ==
  SetTask(loop, i, [loop.queue[i] EXCEPT
    !.pc = "pull", !.firstPull = first, !.response = NoResponse,
    !.activeAtCall = loop.started /\ isConnected(c)])

\* -------------------------------------------------- the loop's environment
Devices == [A |-> DevA, B |-> DevB]

DriverStates == { "offline", "connected", "needsAuth", "paused" }

SyncNowVals == { 1 }

SyncOps == { PutOp(B1, "d1", Absent), DeleteOp(B1), PutOp(B2, "d2", P1) }

\* start()
Start(c) ==
  /\ ~sLoop[c].started
  /\ sLoop' = [sLoop EXCEPT ![c] =
                 queueSyncCycle([@ EXCEPT !.started = TRUE, !.stopResolved = FALSE,
                                          !.listeners = { "connection", "transport" }],
                                isConnected(c), TRUE)]
  /\ UNCHANGED << sClients, sTransport, sScript, sConn, sStore, tServer, tReturned, gMax, gLeft, gQuiet, notSync >>

\* stop(): the flags, clearTimer, then an empty operation on the queue
Stop(c) ==
  /\ sLoop[c].started
  /\ ~gQuiet
  /\ gLeft.stops > 0
  /\ gLeft' = [gLeft EXCEPT !.stops = @ - 1]
  /\ sLoop' = [sLoop EXCEPT ![c] =
                 [@ EXCEPT !.started = FALSE, !.syncQueued = FALSE, !.timer = FALSE,
                           !.listeners = { }, !.authAsked = FALSE,
                           !.queue = Append(@, LoopTask("flush", << >>))]]
  /\ UNCHANGED << sClients, sTransport, sScript, sConn, sStore, tServer, tReturned, gMax, gQuiet, notSync >>

\* the driver reports a state: the manager drops a repeat, stores the state
\* and calls the listeners; onConnectionStateChange is one while started
ConnectionChange(c) ==
  \E nextState \in sScript.driver :
    /\ nextState # sConn[c]
    /\ nextState # "connected" => (~gQuiet /\ gLeft.stops > 0)
    /\ gLeft' = IF nextState # "connected" THEN [gLeft EXCEPT !.stops = @ - 1] ELSE gLeft
    /\ sConn' = [sConn EXCEPT ![c] = nextState]
    /\ sLoop' = [sLoop EXCEPT ![c] =
                   LET loop == [@ EXCEPT !.authAsked = FALSE]
                   IN IF "connection" \notin loop.listeners \/ ~loop.started THEN loop
                      ELSE IF nextState # "connected" THEN [loop EXCEPT !.timer = FALSE]
                      ELSE queueSyncCycle(loop, TRUE, TRUE)]
    /\ UNCHANGED << sClients, sTransport, sScript, sStore, tServer, tReturned, gMax, gQuiet, notSync >>

\* the timer of scheduleNextCycle fires: timer = undefined; queueSyncCycle(false)
TimerFire(c) ==
  /\ sLoop[c].timer
  /\ sLoop' = [sLoop EXCEPT ![c] =
                 queueSyncCycle([@ EXCEPT !.timer = FALSE], isConnected(c), FALSE)]
  /\ UNCHANGED << sClients, sTransport, sScript, sConn, sStore, tServer, tReturned, gMax, gLeft, gQuiet, notSync >>

\* the greater of the write recorded for a key and a new one
MaxWrite(max, row) ==
  LET key == rowKey(row.collectionId, row.id)
  IN IF key \in DOMAIN max /\ compareHlc(row, max[key]) # 1 THEN max
     ELSE (key :> row) @@ max

\* a local put or delete through the client's engine: one clock, one row,
\* applyRows, one pending entry when the row was written
LocalWrite(c) ==
  \E op \in sScript.ops[c], now \in SyncNowVals :
    LET store == sStore[c]
        clocks == BatchClocks(store.clock, Devices[c], now, 1)
        built == StampRows(resolveAtomicIntents(store.rows, << op >>), clocks.clocks,
                           DefaultNamespace)
        applied == applyRows(store.rows, DefaultNamespace, built)
        entries == PendingFor(built, applied.outcomes, store.nextSeq)
    IN /\ ~gQuiet
       /\ gLeft.writes > 0
       /\ clocks.ok
       /\ gLeft' = [gLeft EXCEPT !.writes = @ - 1]
       /\ sStore' = [sStore EXCEPT ![c] =
                       [@ EXCEPT !.clock = clocks.clocks[1], !.rows = applied.rows,
                                 !.pending = appendPendingOperations(@, entries),
                                 !.nextSeq = @ + Len(entries)]]
       /\ gMax' = MaxWrite(gMax, built[1])
       /\ UNCHANGED << sClients, sTransport, sScript, sLoop, sConn, tServer, tReturned, gQuiet, notSync >>

\* ----------------------------------------------- the queued sync operation
\* the operation queued by queueSyncCycle begins: syncQueued = false, the
\* checks of the operation and of runSyncCycle, the first while condition of
\* runPushPhase, the call of storage.getPending
CycleBegin(c) ==
  \E i \in 1 .. Len(sLoop[c].queue) :
    /\ SerialReady(sLoop[c].queue, i)
    /\ sLoop[c].queue[i].kind = "cycle"
    /\ sLoop[c].queue[i].pc = "queued"
    /\ LET loop == [sLoop[c] EXCEPT !.syncQueued = FALSE]
       IN sLoop' = [sLoop EXCEPT ![c] =
                      IF ~Active(c) THEN DropTask(loop, i) ELSE CallGetPending(c, loop, i)]
    /\ UNCHANGED << sClients, sTransport, sScript, sConn, sStore, tServer, tReturned, gMax, gLeft, gQuiet, notSync >>

\* getPending resolved: an empty batch or one that does not start later
\* than the last ends the phase; otherwise transport.push is called
PushGot(c) ==
  \E i \in 1 .. Len(sLoop[c].queue) :
    LET task == sLoop[c].queue[i]
    IN /\ task.pc = "getPending"
       /\ sLoop' = [sLoop EXCEPT ![c] =
            IF Len(task.batch) = 0 THEN AfterPush(c, @, i)
            ELSE IF task.lastFirst # 0 /\ task.batch[1].sequence <= task.lastFirst
              THEN AfterPush(c, @, i)
            ELSE SetTask(@, i, [task EXCEPT !.pc = "push",
                                            !.lastFirst = task.batch[1].sequence,
                                            !.activeAtCall = Active(c)])]
       /\ UNCHANGED << sClients, sTransport, sScript, sConn, sStore, tServer, tReturned, gMax, gLeft, gQuiet, notSync >>

\* transport.push resolved with acknowledgedThroughSequence = ack (0: none):
\* no progress ends the phase, otherwise storage.removePendingThrough(ack)
OnPushResponse(c, i, ack) ==
  LET task == sLoop[c].queue[i]
      progress == ack # 0 /\ ack >= task.batch[1].sequence
  IN /\ sLoop' = [sLoop EXCEPT ![c] =
          IF ~progress THEN AfterPush(c, @, i)
          ELSE SetTask(@, i, [task EXCEPT !.pc = "removePending", !.ack = ack])]
     /\ sStore' = [sStore EXCEPT ![c] =
          IF ~progress THEN @
          ELSE [@ EXCEPT !.pending = removePendingOperationsThrough(@, ack)]]

\* removePendingThrough resolved: the while condition again
PushRemoved(c) ==
  \E i \in 1 .. Len(sLoop[c].queue) :
    /\ sLoop[c].queue[i].pc = "removePending"
    /\ sLoop' = [sLoop EXCEPT ![c] =
         IF Active(c) THEN CallGetPending(c, @, i) ELSE AfterPush(c, @, i)]
    /\ UNCHANGED << sClients, sTransport, sScript, sConn, sStore, tServer, tReturned, gMax, gLeft, gQuiet, notSync >>

\* readCursor resolved: the while condition of runPullPhase, then
\* transport.pull({cursor, limit})
PullCursorRead(c) ==
  \E i \in 1 .. Len(sLoop[c].queue) :
    /\ sLoop[c].queue[i].pc = "readCursor"
    /\ sLoop' = [sLoop EXCEPT ![c] =
         IF Active(c) THEN CallPull(c, @, i, TRUE) ELSE ToFinally(@, i, FALSE)]
    /\ UNCHANGED << sClients, sTransport, sScript, sConn, sStore, tServer, tReturned, gMax, gLeft, gQuiet, notSync >>

\* the part of a pull iteration after the changes were applied: a cursor
\* that advanced is persisted (storage.putKV) and becomes the loop's cursor;
\* otherwise the phase returns, has_more or not
CursorStepLoop(loop, i) ==
  LET task == loop.queue[i]
  IN IF CursorDidAdvance(task.cursor, task.response.nextCursor)
       THEN SetTask(loop, i, [task EXCEPT !.pc = "persistCursor",
                                          !.cursor = task.response.nextCursor])
       ELSE ToFinally(loop, i, FALSE)

CursorStepKV(loop, i, kv) ==
  LET task == loop.queue[i]
  IN IF CursorDidAdvance(task.cursor, task.response.nextCursor)
       THEN task.response.nextCursor ELSE kv

\* a pull iteration that persists the cursor before it applies the changes
OnPullResponsePersistFirst(c, i, response) ==
  LET task == [sLoop[c].queue[i] EXCEPT
                 !.response = response,
                 !.lastNext = IF response.nextCursor # NoCursor
                                THEN response.nextCursor ELSE @]
      got == SetTask(sLoop[c], i, task)
  IN /\ sLoop' = [sLoop EXCEPT ![c] =
          IF Len(response.changes) > 0
            THEN SetTask(got, i, [task EXCEPT !.pc = "applyRemote"])
            ELSE CursorStepLoop(got, i)]
     /\ sStore' = [sStore EXCEPT ![c].kv = CursorStepKV(got, i, @)]

\* transport.pull resolved with `response`: storage.applyRemote is called
\* when it carries changes
OnPullResponse(c, i, response) ==
  LET task == [sLoop[c].queue[i] EXCEPT
                 !.response = response,
                 !.lastNext = IF response.nextCursor # NoCursor
                                THEN response.nextCursor ELSE @]
      got == SetTask(sLoop[c], i, task)
  IN IF Len(response.changes) > 0
       THEN /\ sLoop' = [sLoop EXCEPT ![c] = SetTask(got, i, [task EXCEPT !.pc = "applyRemote"])]
            /\ sStore' = sStore
       ELSE /\ sLoop' = [sLoop EXCEPT ![c] = CursorStepLoop(got, i)]
            /\ sStore' = [sStore EXCEPT ![c].kv = CursorStepKV(got, i, @)]

\* applyRemote resolved (the rows went through applyRows) or rejected
PullApplied(c) ==
  \E i \in 1 .. Len(sLoop[c].queue) :
    LET task == sLoop[c].queue[i]
        applied == applyRows(sStore[c].rows, DefaultNamespace, task.response.changes)
    IN /\ task.kind = "cycle"
       /\ task.pc = "applyRemote"
       /\ IF ~applied.ok
            THEN /\ sLoop' = [sLoop EXCEPT ![c] = ToFinally(@, i, TRUE)]
                 /\ sStore' = sStore
            ELSE /\ sLoop' = [sLoop EXCEPT ![c] = CursorStepLoop(@, i)]
                 /\ sStore' = [sStore EXCEPT ![c] =
                      [@ EXCEPT !.rows = applied.rows,
                                !.kv = CursorStepKV(sLoop[c], i, @)]]
       /\ UNCHANGED << sClients, sTransport, sScript, sConn, tServer, tReturned, gMax, gLeft, gQuiet, notSync >>

\* putKV resolved: return when has_more is false, else the while condition
PullPersisted(c) ==
  \E i \in 1 .. Len(sLoop[c].queue) :
    LET task == sLoop[c].queue[i]
    IN /\ task.pc = "persistCursor"
       /\ sLoop' = [sLoop EXCEPT ![c] =
            IF ~task.response.hasMore THEN ToFinally(@, i, FALSE)
            ELSE IF Active(c) THEN CallPull(c, @, i, FALSE)
            ELSE ToFinally(@, i, FALSE)]
       /\ UNCHANGED << sClients, sTransport, sScript, sConn, sStore, tServer, tReturned, gMax, gLeft, gQuiet, notSync >>

\* the finally block of the queued operation, then the operation settles
CycleFinally(c) ==
  \E i \in 1 .. Len(sLoop[c].queue) :
    /\ sLoop[c].queue[i].pc = "finally"
    /\ sLoop' = [sLoop EXCEPT ![c] =
         IF ~Active(c) THEN DropTask(@, i)
         ELSE IF sLoop[c].syncQueued THEN DropTask(@, i)
         ELSE scheduleNextCycle(DropTask(@, i), isConnected(c))]
    /\ UNCHANGED << sClients, sTransport, sScript, sConn, sStore, tServer, tReturned, gMax, gLeft, gQuiet, notSync >>

\* the operation queued by onTransportEvent begins
EventBegin(c) ==
  \E i \in 1 .. Len(sLoop[c].queue) :
    /\ SerialReady(sLoop[c].queue, i)
    /\ sLoop[c].queue[i].kind = "event"
    /\ sLoop[c].queue[i].pc = "queued"
    /\ sLoop' = [sLoop EXCEPT ![c] =
         IF ~sLoop[c].started THEN DropTask(@, i)
         ELSE SetTask(@, i, [sLoop[c].queue[i] EXCEPT !.pc = "applyRemote"])]
    /\ UNCHANGED << sClients, sTransport, sScript, sConn, sStore, tServer, tReturned, gMax, gLeft, gQuiet, notSync >>

\* its applyRemote resolved or rejected (reportError); the operation settles
EventApplied(c) ==
  \E i \in 1 .. Len(sLoop[c].queue) :
    LET task == sLoop[c].queue[i]
        applied == applyRows(sStore[c].rows, DefaultNamespace, task.changes)
    IN /\ task.kind = "event"
       /\ task.pc = "applyRemote"
       /\ sLoop' = [sLoop EXCEPT ![c] =
            IF applied.ok THEN DropTask(@, i) ELSE reportError(DropTask(@, i), "event")]
       /\ sStore' = [sStore EXCEPT ![c].rows = applied.rows]
       /\ UNCHANGED << sClients, sTransport, sScript, sConn, tServer, tReturned, gMax, gLeft, gQuiet, notSync >>

\* the empty operation of stop() runs and settles: that stop() resolves
FlushRun(c) ==
  \E i \in 1 .. Len(sLoop[c].queue) :
    /\ SerialReady(sLoop[c].queue, i)
    /\ sLoop[c].queue[i].kind = "flush"
    /\ sLoop' = [sLoop EXCEPT ![c] =
         [DropTask(@, i) EXCEPT !.stopResolved = ~sLoop[c].started]]
    /\ UNCHANGED << sClients, sTransport, sScript, sConn, sStore, tServer, tReturned, gMax, gLeft, gQuiet, notSync >>

\* ------------------------------------- one loop against a scripted transport
\* local writes, interruptions (stop, leaving connected) and transport
\* events of one run
SyncWrites == 3
SyncStops == 1
SyncEvents == 1

\* errors one run hands to onError
MaxErrors == 2

\* what a TransportAdapter may answer: any acknowledged sequence or none (0),
\* any page, cursor and has_more
ScriptedAcks == { 0, 1, 2, 3 }

FewAcks == { 0, 1 }

RemoteZ == Row(DefaultNamespace, Books, B1, NullParent, "r1", FALSE, 5, 1, 5, DevZ)

ScriptedCursors == { NoCursor, Cursor(1, Books, B2), Cursor(2, Books, B1) }

ScriptedResponses ==
  { Response(changes, nextCursor, hasMore) :
      changes \in { << >>, << RemoteZ >> }, nextCursor \in ScriptedCursors,
      hasMore \in BOOLEAN }

FewResponses == { Response(<< >>, NoCursor, FALSE),
                  Response(<< RemoteZ >>, Cursor(1, Books, B2), TRUE) }

PushRespondScripted(c) ==
  \E i \in 1 .. Len(sLoop[c].queue), ack \in sScript.acks :
    /\ sLoop[c].queue[i].pc = "push"
    /\ OnPushResponse(c, i, ack)
    /\ UNCHANGED << sClients, sTransport, sScript, sConn, tServer, tReturned, gMax, gLeft, gQuiet, notSync >>

\* transport.push or transport.pull rejects: runSyncCycle throws, the
\* operation reports the error and goes on to its finally block
TransportRejects(c) ==
  \E i \in 1 .. Len(sLoop[c].queue) :
    /\ sLoop[c].queue[i].pc \in { "push", "pull" }
    /\ Len(sLoop[c].errors) < MaxErrors
    /\ sLoop' = [sLoop EXCEPT ![c] = ToFinally(@, i, TRUE)]
    /\ UNCHANGED << sClients, sTransport, sScript, sConn, sStore, tServer, tReturned, gMax, gLeft, gQuiet, notSync >>

PullRespondScripted(c) ==
  \E i \in 1 .. Len(sLoop[c].queue), response \in sScript.responses :
    /\ sLoop[c].queue[i].pc = "pull"
    /\ Len(sLoop[c].errors) < MaxErrors
         \/ applyRows(<< >>, DefaultNamespace, response.changes).ok
    /\ OnPullResponse(c, i, response)
    /\ UNCHANGED << sClients, sTransport, sScript, sConn, tServer, tReturned, gMax, gLeft, gQuiet, notSync >>

\* the transport calls the listener of onEvent with serverChanges: an
\* applyRemote is queued (needsAuth is reported and changes nothing here)
TransportEvent(c) ==
  /\ "transport" \in sLoop[c].listeners
  /\ sLoop[c].started
  /\ gLeft.events > 0
  /\ gLeft' = [gLeft EXCEPT !.events = @ - 1]
  /\ sLoop' = [sLoop EXCEPT ![c].queue = Append(@, LoopTask("event", << RemoteZ >>))]
  /\ UNCHANGED << sClients, sTransport, sScript, sConn, sStore, tServer, tReturned, gMax, gQuiet, notSync >>

NewStore(kv) ==
  [rows |-> << >>, pending |-> << >>, nextSeq |-> 1, clock |-> NoClock, kv |-> kv]

\* one client; `writes` local writes, the transport answering from `acks`
\* and `responses`
InitScripted(writes, acks, responses) ==
  /\ sClients = { "A" }
  /\ sTransport = "scripted"
  /\ sScript = [acks |-> acks, responses |-> responses,
                ops |-> [c \in sClients |-> SyncOps], driver |-> DriverStates,
                onError |-> FALSE]
  /\ sLoop = [c \in sClients |-> NewLoop]
  /\ sConn \in [sClients -> { "offline", "connected" }]
  /\ \E kv \in { NoCursor, BadCursor } : sStore = [c \in sClients |-> NewStore(kv)]
  /\ tServer = [rows |-> << >>, last |-> 0]
  /\ tReturned = [c \in sClients |-> { }]
  /\ gMax = << >>
  /\ gLeft = [writes |-> writes, stops |-> SyncStops, events |-> SyncEvents]
  /\ gQuiet = FALSE
  /\ IdleHlc
  /\ IdleRows
  /\ IdleEng
  /\ IdleConn

\* the push side: several pending entries, every acknowledgement
Init == InitScripted(SyncWrites, ScriptedAcks, FewResponses)

\* the pull side: every response
InitPull == InitScripted(1, FewAcks, ScriptedResponses)

Next ==
  \E c \in sClients :
    \/ Start(c)
    \/ Stop(c)
    \/ ConnectionChange(c)
    \/ TimerFire(c)
    \/ LocalWrite(c)
    \/ TransportEvent(c)
    \/ CycleBegin(c)
    \/ PushGot(c)
    \/ PushRespondScripted(c)
    \/ PushRemoved(c)
    \/ PullCursorRead(c)
    \/ PullRespondScripted(c)
    \/ TransportRejects(c)
    \/ PullApplied(c)
    \/ PullPersisted(c)
    \/ CycleFinally(c)
    \/ EventBegin(c)
    \/ EventApplied(c)
    \/ FlushRun(c)

Spec == Init /\ [][Next]_vars

SpecPull == InitPull /\ [][Next]_vars


\* ------------------------------------------------------- the loop's claims
\* the operations of a loop's queue that have begun and not settled
Running(c) == { i \in 1 .. Len(sLoop[c].queue) : sLoop[c].queue[i].pc # "queued" }

InTransport(c) ==
  { i \in 1 .. Len(sLoop[c].queue) : sLoop[c].queue[i].pc \in { "push", "pull" } }

\* C6: at most one operation of a loop's serial queue has begun and not
\* settled, so at most one sync cycle executes and at most one transport
\* push or pull of the loop is in flight, whatever the timer, the
\* connection, the transport events and start/stop do meanwhile.
C6_NonOverlap ==
  \A c \in sClients :
    /\ Cardinality(Running(c)) <= 1
    /\ Cardinality(InTransport(c)) <= 1

\* C6 witness: a pull is in flight while a second cycle, queued meanwhile,
\* waits behind it
C6_Witness ==
  \E c \in sClients :
    /\ Len(sLoop[c].queue) >= 2
    /\ sLoop[c].queue[1].pc = "pull"
    /\ sLoop[c].queue[2].kind = "cycle"
    /\ sLoop[c].queue[2].pc = "queued"

\* C7 as stated: every transport push or pull in flight was begun while the
\* loop was started and the connection state was connected.
C7_CallsBegunOnlyWhileActive ==
  \A c \in sClients : \A i \in InTransport(c) : sLoop[c].queue[i].activeAtCall

RECURSIVE Ascending(_)
Ascending(ops) ==
  Len(ops) <= 1 \/ (ops[1].sequence < ops[2].sequence /\ Ascending(Tail(ops)))

\* a push in flight carries a non-empty prefix of the log, no longer than
\* the batch size, in ascending sequence order
PushCarriesLowest(c, task) ==
  /\ Len(task.batch) >= 1
  /\ Len(task.batch) <= PushBatchSize
  /\ Len(task.batch) <= Len(sStore[c].pending)
  /\ task.batch = SubSeq(sStore[c].pending, 1, Len(task.batch))
  /\ Ascending(sStore[c].pending)

\* one step of the operation `i` of client c, seen from outside
PushStep(c, i) ==
  LET before == sLoop[c].queue[i]
      after == sLoop'[c].queue[i]
      log == sStore[c].pending
      logAfter == sStore'[c].pending
      gone == { k \in 1 .. Len(log) : \A n \in 1 .. Len(logAfter) : logAfter[n] # log[k] }
  IN \/ Len(sLoop'[c].queue) < i
     \/ after = before
     \/ /\ before.pc = "push"
        /\ after.pc = "removePending"
        /\ after.ack >= before.batch[1].sequence
        /\ gone = { k \in 1 .. Len(log) : log[k].sequence <= after.ack }
        /\ Len(logAfter) = Len(log) - Cardinality(gone)
     \/ /\ before.pc = "push"
        /\ after.pc # "removePending"
        /\ logAfter = log
     \/ /\ before.pc = "removePending"
        /\ IF Active(c)
             THEN after.pc = "getPending"
                  /\ after.batch = SubSeq(log, 1, Len(after.batch))
                  /\ Len(after.batch) = (IF Len(log) < PushBatchSize THEN Len(log) ELSE PushBatchSize)
             ELSE after.pc = "finally"
     \/ /\ before.pc = "getPending"
        /\ after.pc = "push" \/ Len(before.batch) = 0
                             \/ before.batch[1].sequence <= before.lastFirst
     \/ before.pc \notin { "push", "removePending", "getPending" }

\* C8: a push request carries the lowest pending entries, at most
\* push_batch_size, ascending; an acknowledgement a >= the first pushed
\* sequence removes exactly the entries with sequence <= a; without one the
\* log is left alone and the phase ends; after a removal the phase reads
\* the log again while the loop is started and connected, and it ends on an
\* empty log or a batch that made no progress.
C8_PushBatches ==
  /\ [](\A c \in sClients : \A i \in 1 .. Len(sLoop[c].queue) :
          sLoop[c].queue[i].pc = "push" => PushCarriesLowest(c, sLoop[c].queue[i]))
  /\ [][\A c \in sClients : \A i \in 1 .. Len(sLoop[c].queue) : PushStep(c, i)]_vars

\* C8 witness: of three pending entries the two lowest were pushed and
\* acknowledged; the third is what remains in the log
C8_Witness ==
  \E c \in sClients :
    /\ Len(sLoop[c].queue) >= 1
    /\ sLoop[c].queue[1].pc = "removePending"
    /\ Len(sLoop[c].queue[1].batch) = PushBatchSize
    /\ sLoop[c].queue[1].ack = 2
    /\ Len(sStore[c].pending) = 1
    /\ sStore[c].pending[1].sequence = 3

\* the local store holds, for the identity of `row`, a row at least as
\* recent: what applyRows leaves behind for a row it was given
Dominated(rows, row) ==
  /\ rowKey(row.collectionId, row.id) \in DOMAIN rows
  /\ compareHlc(rows[rowKey(row.collectionId, row.id)], row) >= 0

\* C9: the first pull of a cycle carries the cursor read from KV (none when
\* KV holds none or a malformed one), a later pull of the cycle carries the
\* next_cursor of the response before it; once an iteration is past its
\* apply_remote every change of its response is in the local store or lost
\* to a more recent row; and when the phase ends on a response with
\* has_more = FALSE the cursor in KV is the last next_cursor a response of
\* the cycle carried.  KV outlives stop/start, so the first pull of any
\* later cycle carries that cursor.
C9_PullCursor ==
  \A c \in sClients : \A i \in 1 .. Len(sLoop[c].queue) :
    LET task == sLoop[c].queue[i]
    IN /\ (task.pc = "pull" /\ task.firstPull) => task.cursor = readCursor(sStore[c].kv)
       /\ (task.pc = "pull" /\ ~task.firstPull) =>
            (task.cursor # NoCursor /\ task.cursor = task.lastNext)
       /\ (task.kind = "cycle" /\ task.pc \in { "persistCursor", "finally" } /\ ~task.threw) =>
            \A k \in 1 .. Len(task.response.changes) :
              Dominated(sStore[c].rows, task.response.changes[k])
       /\ (task.pc = "finally" /\ ~task.threw /\ task.response.received
             /\ ~task.response.hasMore /\ task.lastNext # NoCursor) =>
            sStore[c].kv = task.lastNext

\* C9 witness: the second pull of a cycle returned a change, a new cursor
\* and has_more = FALSE; the change is stored and the cursor is in KV
C9_Witness ==
  \E c \in sClients :
    /\ Len(sLoop[c].queue) >= 1
    /\ sLoop[c].queue[1].pc = "finally"
    /\ ~sLoop[c].queue[1].firstPull
    /\ ~sLoop[c].queue[1].response.hasMore
    /\ Len(sLoop[c].queue[1].response.changes) = 1
    /\ sLoop[c].queue[1].response.nextCursor = Cursor(2, Books, B1)
    /\ sStore[c].kv = Cursor(2, Books, B1)
    /\ Dominated(sStore[c].rows, RemoteZ)

\* the order of two cursors, field by field: committed_timestamp_ms, then
\* collection_id, then id
CursorBefore(a, b) ==
  IF a.committedTimestampMs # b.committedTimestampMs
    THEN a.committedTimestampMs < b.committedTimestampMs
  ELSE IF a.collectionId # b.collectionId THEN StrLess(a.collectionId, b.collectionId)
  ELSE StrLess(a.id, b.id)

\* C10 as stated: the loop never replaces the cursor in KV by a smaller one.
C10_CursorNeverDecreases ==
  [][\A c \in sClients :
       (isSyncCursor(sStore[c].kv) /\ isSyncCursor(sStore'[c].kv)) =>
         ~CursorBefore(sStore'[c].kv, sStore[c].kv)]_vars

\* ------------------------- two clients and one in-memory transport server
Clients == { "A", "B" }

\* local writes and interruptions of one run
ConvWrites == 2
ConvStops == 1

\* what the two applications write: both put row b1, A also deletes it,
\* B also puts row b2
ConvOps ==
  [A |-> { PutOp(B1, "d1", Absent), DeleteOp(B1) },
   B |-> { PutOp(B1, "d1", Absent), PutOp(B2, "d2", P1) }]

\* the connection driver of either client goes offline and comes back
ConvDriver == { "offline", "connected" }

\* readings of the server's now()
ServerNowVals == { 2 }

\* InMemoryTransportAdapter.push answers the push in flight
PushRespondInMemory(c) ==
  \E i \in 1 .. Len(sLoop[c].queue), nowMs \in ServerNowVals :
    LET pushed == push(tServer, sLoop[c].queue[i].batch, nowMs)
    IN /\ sLoop[c].queue[i].pc = "push"
       /\ tServer' = [rows |-> pushed.rows, last |-> pushed.last]
       /\ OnPushResponse(c, i, pushed.ack)
       /\ UNCHANGED << sClients, sTransport, sScript, sConn, tReturned, gMax, gLeft, gQuiet, notSync >>

\* InMemoryTransportAdapter.pull answers the pull in flight
PullRespondInMemory(c) ==
  \E i \in 1 .. Len(sLoop[c].queue) :
    /\ sLoop[c].queue[i].pc = "pull"
    /\ \E page \in { pull(tServer.rows, sLoop[c].queue[i].cursor, PullLimit) } :
         /\ OnPullResponse(c, i, Response(page.changes, page.nextCursor, page.hasMore))
         /\ tReturned' = [tReturned EXCEPT ![c] =
                            @ \cup { page.changes[k] : k \in 1 .. Len(page.changes) }]
    /\ UNCHANGED << sClients, sTransport, sScript, sConn, tServer, gMax, gLeft, gQuiet, notSync >>

\* from here on nobody writes and no client leaves connected
Quiesce ==
  /\ ~gQuiet
  /\ \A c \in sClients : Active(c)
  /\ gQuiet' = TRUE
  /\ UNCHANGED << sClients, sTransport, sScript, sLoop, sConn, sStore, tServer, tReturned, gMax, gLeft,
                  notSync >>

InitConv ==
  /\ sClients = Clients
  /\ sTransport = "inMemory"
  /\ sScript = [acks |-> { }, responses |-> { }, ops |-> ConvOps, driver |-> ConvDriver,
                onError |-> FALSE]
  /\ sLoop = [c \in sClients |-> NewLoop]
  /\ sConn = [c \in sClients |-> "connected"]
  /\ sStore = [c \in sClients |-> NewStore(NoCursor)]
  /\ tServer = [rows |-> << >>, last |-> 0]
  /\ tReturned = [c \in sClients |-> { }]
  /\ gMax = << >>
  /\ gLeft = [writes |-> ConvWrites, stops |-> ConvStops, events |-> 0]
  /\ gQuiet = FALSE
  /\ IdleHlc
  /\ IdleRows
  /\ IdleEng
  /\ IdleConn

\* what the event loop, the timer and the server do for client c sooner or
\* later
LoopProgress(c) ==
  \/ TimerFire(c)
  \/ CycleBegin(c)
  \/ PushGot(c)
  \/ PushRespondInMemory(c)
  \/ PushRemoved(c)
  \/ PullCursorRead(c)
  \/ PullRespondInMemory(c)
  \/ PullApplied(c)
  \/ PullPersisted(c)
  \/ CycleFinally(c)

NextConv ==
  \/ Quiesce
  \/ \E c \in sClients :
       \/ Start(c)
       \/ ConnectionChange(c)
       \/ LocalWrite(c)
       \/ LoopProgress(c)

SpecConv ==
  /\ InitConv
  /\ [][NextConv]_vars
  /\ \A c \in Clients : WF_vars(LoopProgress(c))

\* two rows are the same write: identity, parent, payload and HLC (the
\* committed timestamp is the server's, a writer keeps its own)
SameWrite(a, b) ==
  /\ a.namespace = b.namespace
  /\ a.collectionId = b.collectionId
  /\ a.id = b.id
  /\ a.parentId = b.parentId
  /\ a.data = b.data
  /\ a.tombstone = b.tombstone
  /\ HlcOf(a) = HlcOf(b)

HoldsMax(rows) ==
  /\ DOMAIN rows = DOMAIN gMax
  /\ \A key \in DOMAIN gMax : SameWrite(rows[key], gMax[key])

Converged ==
  /\ HoldsMax(tServer.rows)
  /\ \A c \in sClients : HoldsMax(sStore[c].rows)

\* C1: once the writes have stopped and both loops stay started and
\* connected, the two clients and the server come to hold, for every row
\* identity, the write with the greatest HLC among all writes made to it,
\* and keep holding it.
C1_Converges == gQuiet ~> [](Converged)

\* C1 witness: both clients wrote the same row, the run went quiet and the
\* three stores hold client B's write
C1_Witness ==
  /\ gQuiet
  /\ Converged
  /\ gLeft.writes = 0
  /\ Cardinality(DOMAIN gMax) = 1
  /\ \A c \in sClients : sStore[c].clock # NoClock
  /\ \E key \in DOMAIN gMax : gMax[key].hlcDeviceId = DevB


\* ------------------------------ one loop with onError, failures and stops
\* local writes, interruptions and transport events of one run
ErrWrites == 1
ErrStops == 2
ErrEvents == 1

\* a change that storage.applyRemote rejects: a row of another namespace
ForeignZ == Row(OtherNamespace, Books, B1, NullParent, "r1", FALSE, 5, 1, 5, DevZ)

ErrResponses ==
  { Response(<< >>, NoCursor, FALSE),
    Response(<< RemoteZ >>, Cursor(1, Books, B2), FALSE),
    Response(<< ForeignZ >>, Cursor(1, Books, B2), FALSE) }

\* the transport calls the listener of onEvent with needsAuth:
\* reportError(authRequiredError()) and nothing else
NeedsAuthEvent(c) ==
  /\ "transport" \in sLoop[c].listeners
  /\ sLoop[c].started
  /\ Len(sLoop[c].errors) < MaxErrors
  /\ sLoop' = [sLoop EXCEPT ![c] = reportError([@ EXCEPT !.authAsked = TRUE], "auth")]
  /\ UNCHANGED << sClients, sTransport, sScript, sConn, sStore, tServer, tReturned, gMax, gLeft, gQuiet, notSync >>

\* stop() on a loop that is not started returns at once: it resolves
StopAgain(c) ==
  /\ ~sLoop[c].started
  /\ sLoop' = [sLoop EXCEPT ![c].stopResolved = TRUE]
  /\ UNCHANGED << sClients, sTransport, sScript, sConn, sStore, tServer, tReturned, gMax, gLeft, gQuiet, notSync >>

InitErr ==
  /\ sClients = { "A" }
  /\ sTransport = "scripted"
  /\ sScript = [acks |-> FewAcks, responses |-> ErrResponses,
                ops |-> [c \in sClients |-> SyncOps], driver |-> DriverStates,
                onError |-> TRUE]
  /\ sLoop = [c \in sClients |-> NewLoop]
  /\ sConn \in [sClients -> { "offline", "connected" }]
  /\ sStore = [c \in sClients |-> NewStore(NoCursor)]
  /\ tServer = [rows |-> << >>, last |-> 0]
  /\ tReturned = [c \in sClients |-> { }]
  /\ gMax = << >>
  /\ gLeft = [writes |-> ErrWrites, stops |-> ErrStops, events |-> ErrEvents]
  /\ gQuiet = FALSE
  /\ IdleHlc
  /\ IdleRows
  /\ IdleEng
  /\ IdleConn

NextErr ==
  \/ Next
  \/ \E c \in sClients :
       \/ NeedsAuthEvent(c)
       \/ StopAgain(c)

SpecErr == InitErr /\ [][NextErr]_vars


\* one step of client c's loop, seen from the operation at the head of its
\* queue: an exception in a phase and the settling of a cycle
ErrStep(c) ==
  LET q == sLoop[c].queue
      after == sLoop'[c].queue
      inPhase == /\ Len(q) >= 1
                 /\ q[1].kind = "cycle"
                 /\ q[1].pc \in { "push", "pull", "applyRemote" }
      threwNow == /\ inPhase
                  /\ Len(after) >= 1
                  /\ after[1].pc = "finally"
                  /\ after[1].threw
      applyFails == /\ inPhase
                    /\ q[1].pc = "applyRemote"
                    /\ ~applyRows(sStore[c].rows, DefaultNamespace, q[1].response.changes).ok
                    /\ Len(after) >= 1
                    /\ after[1] # q[1]
      settles == /\ Len(q) >= 1
                 /\ q[1].pc = "finally"
                 /\ after = Tail(q)
  IN /\ applyFails => threwNow
     /\ threwNow => /\ sLoop'[c].errors = Append(sLoop[c].errors, "cycle")
                    /\ sStore'[c] = sStore[c]
     /\ settles => /\ sLoop'[c].errors = sLoop[c].errors
                   /\ (Active(c) /\ ~sLoop[c].syncQueued) => sLoop'[c].timer

\* C11: an exception of the transport or of storage inside a phase is
\* reported through on_error and takes the cycle straight to its end, with
\* the pending log, the rows and the cursor as they were; the cycle then
\* settles like any other, and while the loop is started and connected the
\* timer of the next cycle is set, whether the cycle threw or not.
C11_ErrorsEndCycleAndRetry ==
  /\ [](\A c \in sClients : \A i \in 1 .. Len(sLoop[c].queue) :
          sLoop[c].queue[i].threw => sLoop[c].queue[i].pc = "finally")
  /\ [][\A c \in sClients : ErrStep(c)]_vars

\* C11 witness: a cycle threw and was reported, and a later cycle has the
\* same pending entry in flight again
C11_Witness ==
  \E c \in sClients :
    /\ sLoop[c].errors = << "cycle" >>
    /\ Len(sLoop[c].queue) >= 1
    /\ sLoop[c].queue[1].pc = "push"
    /\ Len(sStore[c].pending) = 1
    /\ sLoop[c].queue[1].batch = sStore[c].pending
    /\ sStore[c].rows = << >> \/ sStore[c].kv = NoCursor

\* C12 as stated: a needsAuth event on a started loop hands AuthRequired to
\* on_error, and from then until the connection state changes no pull is
\* begun.
C12_NoPullAfterNeedsAuth ==
  [][\A c \in sClients :
       /\ (~sLoop[c].authAsked /\ sLoop'[c].authAsked) =>
            sLoop'[c].errors = Append(sLoop[c].errors, "auth")
       /\ (sLoop[c].authAsked /\ Len(sLoop'[c].queue) >= 1
             /\ sLoop'[c].queue[1].pc = "pull") =>
            (Len(sLoop[c].queue) >= 1 /\ sLoop[c].queue[1].pc = "pull")]_vars

\* C13 as stated: once a stop() has resolved and until start() is called
\* again, the timer is cleared, both subscriptions are removed and no
\* operation of the loop's queue is running, so that no push, pull or
\* apply_remote is in flight or begun.
C13_StoppedIsQuiet ==
  \A c \in sClients :
    sLoop[c].stopResolved =>
      /\ ~sLoop[c].started
      /\ ~sLoop[c].timer
      /\ sLoop[c].listeners = { }
      /\ Running(c) = { }


\* ------------------------------- engines created over one adapter in turn
\* createEngine again over the same adapter and clock, once the engine
\* before it has nothing in flight: a new counter and a new serial queue
EngNewInstance ==
  /\ eQueue = << >>
  /\ eNextSeq > 1
  /\ eNextSeq' = 1
  /\ UNCHANGED << eNodeId, eClock, eRows, ePending, eQueue, eResults, eAppended, eCalls,
                  eListeners, eEvents, notEng >>

NextEngNew ==
  \/ NextEng
  \/ EngNewInstance

SpecEngNew == InitEng /\ [][NextEngNew]_vars

\* C14 as stated: every entry appended to the adapter carries a sequence
\* greater than every sequence appended to it before, whatever was removed
\* in between and whichever engine instance appended it.
C14_SequencesNeverReused ==
  \A j, k \in 1 .. Len(eAppended) :
    j < k => eAppended[j].sequence < eAppended[k].sequence


\* ------------------------------------------------ C15: writes are serialised
\* the operations of the chain that have begun and not yet returned
EngRunning == { i \in 1 .. Len(eQueue) : eQueue[i].pc # "waiting" }

\* C15: applyRemote and the local writes (put, delete, deleteAllWithParent,
\* batchLocal) of one engine never interleave: at most one of them has begun
\* and not returned, it is the oldest call still in the queue, and what a
\* local write read from the store when it resolved its intents is still
\* what the store holds until its own rows are applied.
C15_WritesDoNotInterleave ==
  /\ \A i \in EngRunning : i = 1
  /\ \A i \in 1 .. Len(eQueue) :
       /\ eQueue[i].pc \in { "resolved", "stamped" }
       /\ eQueue[i].kind \in { "put", "delete", "batchLocal" }
       => eQueue[i].intents = resolveAtomicIntents(eRows, eQueue[i].ops)

\* C15 witness: a local write has read the store and holds its stamped rows
\* while an applyRemote and another local write, called meanwhile, wait
C15_Witness ==
  /\ Len(eQueue) = 3
  /\ eQueue[1].pc = "stamped"
  /\ eQueue[1].kind = "put"
  /\ \E i, j \in 2 .. 3 :
       /\ eQueue[i].kind = "applyRemote"
       /\ eQueue[j].kind \in { "delete", "batchLocal", "deleteAllWithParent" }
       /\ eQueue[i].pc = "waiting"
       /\ eQueue[j].pc = "waiting"


\* --------------------------------------- two puts to one row, concurrently
\* Promise.all([engine.put("books", "b1", d1, { parentId: "p1" }),
\*              engine.put("books", "b1", d2)])
PairFirst == PutOp(B1, "d1", P1)

PairSecond == PutOp(B1, "d2", Absent)

InChain(op) == \E i \in 1 .. Len(eQueue) : eQueue[i].ops = << op >>

\* put: queue.run(...); the second call is made while the first is still
\* in the queue
EngPutConcurrently ==
  /\ eCalls < MaxEngineCalls
  /\ eResults = << >>
  /\ ~InChain(PairSecond)
  /\ \E op \in { IF InChain(PairFirst) THEN PairSecond ELSE PairFirst } :
       eQueue' = Append(eQueue, EngTask("put", << op >>, << >>))
  /\ eCalls' = eCalls + 1
  /\ UNCHANGED << eNodeId, eClock, eRows, ePending, eNextSeq, eResults, eAppended, eListeners, eEvents, notEng >>

\* applyRemote: queue.run(...)
EngRemoteCall ==
  /\ eCalls < MaxEngineCalls
  /\ \E rows \in RemoteBatches :
       eQueue' = Append(eQueue, EngTask("applyRemote", << >>, rows))
  /\ eCalls' = eCalls + 1
  /\ UNCHANGED << eNodeId, eClock, eRows, ePending, eNextSeq, eResults, eAppended, eListeners, eEvents, notEng >>

NextPair ==
  \/ EngPutConcurrently
  \/ EngRemoteCall
  \/ EngResolve
  \/ EngAlloc
  \/ EngApply
  \/ EngAppend
  \/ EngFinish
  \/ EngRemoteApply

SpecPair == InitEng /\ [][NextPair]_vars

\* the step at which the second put of the pair returns
SecondReturns == Len(eResults) = 1 /\ Len(eResults') = 2

StoredB1 == queryRow(eRows, Books, B1, TRUE)

\* C16 as stated: when the second of two concurrent puts to one row
\* returns, both results have applied = TRUE, the second's HLC is strictly
\* greater than the first's, and the stored row is the second call's data.
C16_BothAppliedSecondStored ==
  [][SecondReturns =>
       /\ eResults'[1].applied
       /\ eResults'[2].applied
       /\ compareHlc(eResults'[2], eResults'[1]) = 1
       /\ StoredB1'.data = "d2"]_vars

\* C16, amended: the two puts run one after the other in call order; the
\* second resolves its intent against the store as the first left it (it
\* takes the parentId of the first's row when that row is the one stored);
\* the second's HLC is strictly greater than the first's; the second returns
\* applied = TRUE exactly when the stored row is then its own data, and
\* otherwise the store holds a row of another device with a greater HLC;
\* the first being applied, the second can only lose to such a row.
C16_OrderedAndLww ==
  /\ [](\A i \in 1 .. Len(eQueue) :
          /\ eQueue[i].ops = << PairSecond >> /\ eQueue[i].pc # "waiting"
             => ~InChain(PairFirst)
          /\ /\ eQueue[i].ops = << PairSecond >>
             /\ eQueue[i].pc \in { "resolved", "stamped" }
             /\ Len(eResults) = 1
             /\ eResults[1].applied
             /\ HlcOf(StoredB1) = HlcOf(eResults[1])
             => eQueue[i].intents[1].parentId = P1)
  /\ [][SecondReturns =>
          /\ compareHlc(eResults'[2], eResults'[1]) = 1
          /\ eResults'[2].applied
             <=> (StoredB1'.data = "d2" /\ HlcOf(StoredB1') = HlcOf(eResults'[2]))
          /\ ~eResults'[2].applied
             => /\ compareHlc(StoredB1', eResults'[2]) = 1
                /\ StoredB1'.hlcDeviceId # eNodeId]_vars

\* C16 witness: both puts were called before the first had begun, both
\* returned applied = TRUE, and the stored row is the second's data under
\* the parent the first gave
C16_Witness ==
  /\ Len(eResults) = 2
  /\ eResults[1].applied
  /\ eResults[2].applied
  /\ eQueue = << >>
  /\ StoredB1.data = "d2"
  /\ StoredB1.parentId = P1
  /\ eRows # << >>


\* ------------------------------------------- the engine's reads (engine.ts)
\* asLiveRow: undefined for no row and for a tombstone
asLiveRowUnfiltered(row) == row

asLiveRow(row) == IF row = NoRow \/ row.tombstone THEN NoRow ELSE row

\* asLiveRows: rows.filter((row) => !row.tombstone)
asLiveRows(rows) == { row \in rows : ~row.tombstone }

ReadKinds == { "get", "getAll", "getAllWithParent" }

ReadRequest(kind, id, parentId) ==
  [type |-> kind, collectionId |-> Books, id |-> id, data |-> "null", parentId |-> parentId]

\* get, getAll, getAllWithParent: queue.run(...)
EngReadCall ==
  /\ eCalls < MaxEngineCalls
  /\ \/ \E id \in { B1, B2 } :
          eQueue' = Append(eQueue, EngTask("get", << ReadRequest("get", id, AnyParent) >>, << >>))
     \/ eQueue' = Append(eQueue,
                     EngTask("getAll", << ReadRequest("getAll", AnyId, AnyParent) >>, << >>))
     \/ eQueue' = Append(eQueue,
                     EngTask("getAllWithParent",
                             << ReadRequest("getAllWithParent", AnyId, P1) >>, << >>))
  /\ eCalls' = eCalls + 1
  /\ UNCHANGED << eNodeId, eClock, eRows, ePending, eNextSeq, eResults, eAppended, eListeners, eEvents, notEng >>

\* what the read of a request yields on the rows: the live row of the
\* identity (get), the live rows of the collection (getAll), those of the
\* parent (getAllWithParent)
ReadRows(rows, request) ==
  IF request.type = "get"
    THEN LET row == asLiveRow(queryRow(rows, request.collectionId, request.id, TRUE))
         IN IF row = NoRow THEN { } ELSE { row }
    ELSE asLiveRows(query(rows, request.collectionId, AnyId, request.parentId, FALSE))

\* the head read begins: the adapter is queried and the rows are filtered,
\* in the order the adapter lists them
EngRead ==
  \E i \in 1 .. Len(eQueue) :
    /\ SerialReady(eQueue, i)
    /\ eQueue[i].pc = "waiting"
    /\ eQueue[i].kind \in ReadKinds
    /\ \E order \in Orderings(ReadRows(eRows, eQueue[i].ops[1])) :
         eQueue' = [eQueue EXCEPT ![i].pc = "read", ![i].rows = order]
    /\ UNCHANGED << eNodeId, eClock, eRows, ePending, eNextSeq, eResults, eAppended,
                    eCalls, eListeners, eEvents, notEng >>

\* the read returns its rows
EngReadReturn ==
  \E i \in 1 .. Len(eQueue) :
    /\ eQueue[i].pc = "read"
    /\ eQueue' = RemoveAt(eQueue, i)
    /\ UNCHANGED << eNodeId, eClock, eRows, ePending, eNextSeq, eResults, eAppended,
                    eCalls, eListeners, eEvents, notEng >>

\* rows an adapter may hold when the engine is created over it: a live row
\* and a tombstone, written by another device
SeedLive == Row(DefaultNamespace, Books, B1, P1, "s1", FALSE, 1, 0, 0, DevZ)

SeedDead == Row(DefaultNamespace, Books, B2, P1, "null", TRUE, 2, 0, 1, DevZ)

SeededRows ==
  (rowKey(Books, B1) :> SeedLive) @@ (rowKey(Books, B2) :> SeedDead)

InitRead ==
  /\ eNodeId \in { DevA, DevHyph }
  /\ eClock = NoClock
  /\ eRows \in { << >>, SeededRows }
  /\ ePending = << >>
  /\ eNextSeq = 1
  /\ eQueue = << >>
  /\ eResults = << >>
  /\ eAppended = << >>
  /\ eCalls = 0
  /\ eListeners = << >>
  /\ eEvents = << >>
  /\ IdleHlc
  /\ IdleRows
  /\ IdleSync
  /\ IdleConn

NextRead ==
  \/ NextEng
  \/ EngReadCall
  \/ EngRead
  \/ EngReadReturn

SpecRead == InitRead /\ [][NextRead]_vars

\* C17 as stated: every public engine operation goes through the one serial
\* queue: a read or a write begins only as the oldest call of the queue, so
\* at most one is in progress, and the adapter call of removePendingThrough
\* (the one step that shortens the pending log) is not performed while
\* another engine operation is in progress.
C17_AllOperationsSerialised ==
  /\ [](\A i \in EngRunning : i = 1)
  /\ [][Len(ePending') < Len(ePending) => EngRunning = { }]_vars


\* the reads that have queried the adapter and not yet returned
ReadsDone == { i \in 1 .. Len(eQueue) : eQueue[i].pc = "read" }

C19_ReadsHideTombstones ==
  \A i \in ReadsDone :
    \A k \in 1 .. Len(eQueue[i].rows) : ~eQueue[i].rows[k].tombstone

\* C19 witness: the store holds the seeded tombstone b2 and a tombstone of
\* b1 written by applyRemote, and a get of b1 has been answered with no row
C19_Witness ==
  /\ rowKey(Books, B1) \in DOMAIN eRows
  /\ rowKey(Books, B2) \in DOMAIN eRows
  /\ eRows[rowKey(Books, B2)] = SeedDead
  /\ eRows[rowKey(Books, B1)].tombstone
  /\ eRows[rowKey(Books, B1)].hlcDeviceId = DevZ
  /\ \E i \in ReadsDone :
       /\ eQueue[i].kind = "get"
       /\ eQueue[i].ops[1].id = B1
       /\ eQueue[i].rows = << >>


\* the parentId of the row stored under (collectionId, id), tombstones
\* included; null when there is none
StoredParent(collectionId, id) ==
  IF rowKey(collectionId, id) \in DOMAIN eRows
    THEN eRows[rowKey(collectionId, id)].parentId
    ELSE NullParent

\* what a put is to store as parentId, given the store it runs against
ExpectedParent(operation) ==
  IF operation.parentId = Absent
    THEN StoredParent(operation.collectionId, operation.id)
    ELSE operation.parentId

\* C20: when a put applies its row, the row carries the parentId of the row
\* stored at that identity just before (tombstones included, null when
\* there is none) if the call gave no parentId, and the given parentId,
\* null included, if it gave one; a row that is written is stored so.
C20_ParentPreserved ==
  [][\A i \in 1 .. Len(eQueue) :
       /\ eQueue[i].kind = "put"
       /\ eQueue[i].pc = "stamped"
       /\ Len(eQueue') = Len(eQueue)
       /\ eQueue'[i].pc = "applied"
       => LET operation == eQueue[i].ops[1]
              key == rowKey(operation.collectionId, operation.id)
          IN /\ eQueue'[i].outcomes[1].parentId = ExpectedParent(operation)
             /\ eQueue'[i].outcomes[1].written
                => /\ eRows'[key].parentId = ExpectedParent(operation)
                   /\ eRows'[key].data = operation.data
                   /\ ~eRows'[key].tombstone]_vars

\* C20 witness: a put of b2 without parentId has been written over the
\* seeded tombstone of b2 and the row kept the tombstone's parentId, and b1
\* was put with an explicit null over the seeded row of parent p1
C20_Witness ==
  /\ Len(eQueue) >= 1
  /\ eQueue[1].kind = "put"
  /\ eQueue[1].pc = "applied"
  /\ eQueue[1].ops[1].id = B2
  /\ eQueue[1].ops[1].parentId = Absent
  /\ eQueue[1].outcomes[1].written
  /\ rowKey(Books, B1) \in DOMAIN eRows
  /\ eRows[rowKey(Books, B2)].parentId = P1
  /\ ~eRows[rowKey(Books, B2)].tombstone
  /\ eRows[rowKey(Books, B2)].hlcDeviceId = eNodeId
  /\ eRows[rowKey(Books, B1)].parentId = NullParent
  /\ eRows[rowKey(Books, B1)].data = "d2"


\* ------------------------------------------ the engine and its subscribers
\* subscribe(listener): a listener that returns, one that throws
QuietListener == [throws |-> FALSE]

ThrowingListener == [throws |-> TRUE]

ListenerSets == { << QuietListener, QuietListener >>, << ThrowingListener, QuietListener >> }

\* "b", "b::c", "c::d" and "d": the rows (books, "b", parent "c::d") and
\* (books, "b::c", parent "d") differ in id and parentId
IdB == << 98 >>
IdBC == << 98 >> \o KeySep \o << 99 >>
ParentCD == << 99 >> \o KeySep \o << 100 >>
ParentD == << 100 >>

OddBatch == << PutOp(IdB, "d1", ParentCD), PutOp(IdBC, "d2", ParentD) >>

\* batchLocal([put("b", parent "c::d"), put("b::c", parent "d")]): queue.run(...)
EngOddCall ==
  /\ eCalls < MaxEngineCalls
  /\ eQueue' = Append(eQueue, EngTask("batchLocal", OddBatch, << >>))
  /\ eCalls' = eCalls + 1
  /\ UNCHANGED << eNodeId, eClock, eRows, ePending, eNextSeq, eResults, eAppended,
                  eListeners, eEvents, notEng >>

InitNotify ==
  /\ eNodeId = DevA
  /\ eClock = NoClock
  /\ eRows = << >>
  /\ ePending = << >>
  /\ eNextSeq = 1
  /\ eQueue = << >>
  /\ eResults = << >>
  /\ eAppended = << >>
  /\ eCalls = 0
  /\ eListeners \in ListenerSets
  /\ eEvents = << >>
  /\ IdleHlc
  /\ IdleRows
  /\ IdleSync
  /\ IdleConn

NextNotify ==
  \/ NextRead
  \/ EngOddCall

SpecNotify == InitNotify /\ [][NextNotify]_vars

\* the operation at place i of the queue takes a step
TaskMoves(i) ==
  \/ Len(eQueue') < Len(eQueue)
  \/ eQueue'[i].pc # eQueue[i].pc

\* C21: a put or delete whose allocated HLC is not strictly greater than
\* that of the row stored does not fail: applyRows leaves the store as it
\* was and reports the row not written, and the operation then returns a
\* result with applied = FALSE, with nothing appended to the pending log
\* and no event handed to any listener.
C21_StaleWriteIsNoFailure ==
  [][\A i \in 1 .. Len(eQueue) :
       /\ eQueue[i].kind \in { "put", "delete" }
       /\ TaskMoves(i)
       => /\ /\ eQueue[i].pc = "stamped"
             /\ rowKey(eQueue[i].built[1].collectionId, eQueue[i].built[1].id) \in DOMAIN eRows
             /\ compareHlc(eQueue[i].built[1],
                           eRows[rowKey(eQueue[i].built[1].collectionId,
                                        eQueue[i].built[1].id)]) # 1
             => /\ eRows' = eRows
                /\ Len(eQueue') = Len(eQueue)
                /\ eQueue'[i].pc = "applied"
                /\ ~eQueue'[i].outcomes[1].written
          /\ /\ eQueue[i].pc = "applied"
             /\ ~eQueue[i].outcomes[1].written
             => /\ Len(eQueue') = Len(eQueue) - 1
                /\ Len(eResults') = Len(eResults) + 1
                /\ ~eResults'[Len(eResults')].applied
                /\ eResults'[Len(eResults')].id = eQueue[i].ops[1].id
                /\ eResults'[Len(eResults')].tombstone = (eQueue[i].kind = "delete")
                /\ UNCHANGED << eRows, ePending, eAppended, eNextSeq, eEvents >>]_vars

\* C21 witness: applyRemote stored a row of b1 stamped (1, 5, Z); a put of
\* b1 stamped by this device has returned applied = FALSE, the row is still
\* the remote one, and neither the pending log nor any listener got anything
\* from the put (the one event is the remote apply's)
C21_Witness ==
  /\ Len(eResults) = 1
  /\ ~eResults[1].applied
  /\ ~eResults[1].tombstone
  /\ eResults[1].hlcDeviceId = eNodeId
  /\ eQueue = << >>
  /\ eAppended = << >>
  /\ rowKey(Books, B1) \in DOMAIN eRows
  /\ eRows[rowKey(Books, B1)].hlcDeviceId = DevZ
  /\ \A k \in 1 .. Len(eEvents) : eEvents[k].source = "remote"


\* ------------------------------------------- one remote row, applied twice
\* rows a server may send: one newer than anything stored, one older than
\* the seeded row of b1
TwiceRows ==
  { Row(DefaultNamespace, Books, B1, P1, "r1", FALSE, 7, 1, 5, DevZ),
    Row(DefaultNamespace, Books, B1, NullParent, "null", TRUE, 8, 1, 5, DevZ),
    Row(DefaultNamespace, Books, B1, P1, "r0", FALSE, 6, 0, 0, DevB) }

\* await engine.applyRemote([row]); await engine.applyRemote([row]), or
\* both calls at once: the second enters the queue behind the first
EngRemoteTwice ==
  /\ eCalls = 0
  /\ eCalls' = 2
  /\ \E row \in TwiceRows :
       eQueue' = eQueue \o << EngTask("applyRemote", << >>, << row >>),
                              EngTask("applyRemote", << >>, << row >>) >>
  /\ UNCHANGED << eNodeId, eClock, eRows, ePending, eNextSeq, eResults, eAppended,
                  eListeners, eEvents, notEng >>

InitTwice ==
  /\ eNodeId = DevA
  /\ eClock = NoClock
  /\ eRows \in { << >>, SeededRows }
  /\ ePending = << >>
  /\ eNextSeq = 1
  /\ eQueue = << >>
  /\ eResults = << >>
  /\ eAppended = << >>
  /\ eCalls = 0
  /\ eListeners = << QuietListener >>
  /\ eEvents = << >>
  /\ IdleHlc
  /\ IdleRows
  /\ IdleSync
  /\ IdleConn

NextTwice ==
  \/ EngRemoteTwice
  \/ EngRemoteApply
  \/ EngFinish
  \/ EngReadCall
  \/ EngRead
  \/ EngReadReturn

SpecTwice == InitTwice /\ [][NextTwice]_vars

RemotesQueued == { i \in 1 .. Len(eQueue) : eQueue[i].kind = "applyRemote" }

\* the first, the second of the two calls performs its applyRows
FirstApplies(i) ==
  /\ i \in RemotesQueued
  /\ Cardinality(RemotesQueued) = 2
  /\ eQueue[i].pc = "waiting"
  /\ Len(eQueue') = Len(eQueue)
  /\ eQueue'[i].pc = "appended"

SecondApplies(i) ==
  /\ RemotesQueued = { i }
  /\ eQueue[i].pc = "waiting"
  /\ Len(eQueue') = Len(eQueue)
  /\ eQueue'[i].pc = "appended"

\* C22 as stated: of two applyRemote calls with the identical row exactly
\* one has a written outcome (the first: its event, the only one, has been
\* delivered when the second applies), and the second leaves the store as
\* the first left it.
C22_ExactlyOneWritten ==
  [][\A i \in 1 .. Len(eQueue) :
       SecondApplies(i)
       => /\ ~eQueue'[i].outcomes[1].written
          /\ eRows' = eRows
          /\ Len(eEvents) = 1]_vars

\* C22, amended: the second of two applyRemote calls with the identical
\* row is never written and leaves the store as the first left it; the
\* first is written exactly when no row is stored at the identity or the
\* row's HLC is strictly greater than the stored row's, so at most one of
\* the two outcomes is written.
C22_SecondNeverWritten ==
  [][\A i \in 1 .. Len(eQueue) :
       /\ SecondApplies(i)
          => /\ ~eQueue'[i].outcomes[1].written
             /\ eRows' = eRows
             /\ Len(eEvents) <= 1
       /\ FirstApplies(i)
          => LET row == eQueue[i].rows[1]
                 key == rowKey(row.collectionId, row.id)
             IN /\ eQueue'[i].outcomes[1].written
                   <=> (key \notin DOMAIN eRows \/ compareHlc(row, eRows[key]) = 1)
                /\ eQueue'[i].outcomes[1].written => eRows'[key] = row
                /\ ~eQueue'[i].outcomes[1].written => eRows' = eRows]_vars

\* C22 witness: both calls have returned, the first was written (its event
\* is the only one) and the store holds the row
C22_Witness ==
  /\ eCalls >= 2
  /\ RemotesQueued = { }
  /\ Len(eEvents) = 1
  /\ eEvents[1].source = "remote"
  /\ rowKey(Books, B1) \in DOMAIN eRows
  /\ eRows[rowKey(Books, B1)] \in TwiceRows


\* the operation at place i of the queue emits its event, if any, and returns
Returns(i) == eQueue[i].pc = "appended" /\ Len(eQueue') < Len(eQueue)

\* the (collectionId, id, parentId) of the rows an operation wrote
WrittenTriples(outcomes) ==
  { HintOf(outcomes[k]) : k \in { n \in 1 .. Len(outcomes) : outcomes[n].written } }

NoListenerThrows == \A k \in 1 .. Len(eListeners) : ~eListeners[k].throws

\* C23: with listeners that return, an event is handed to every listener
\* exactly once when a local write or an applyRemote that wrote at least one
\* row returns, after its applyRows and pending append: its source is local
\* or remote accordingly and its hints are the (collectionId, id, parentId)
\* of the written rows, each once; no other step hands over an event, so
\* reads and operations that wrote nothing emit none.
C23_OneEventPerWritingOperation ==
  [][/\ (\A i \in 1 .. Len(eQueue) : ~Returns(i)) => eEvents' = eEvents
     /\ \A i \in 1 .. Len(eQueue) :
          Returns(i) /\ NoListenerThrows
          => LET expected == WrittenTriples(eQueue[i].outcomes)
             IN IF expected = { } THEN eEvents' = eEvents
                ELSE /\ Len(eEvents') = Len(eEvents) + Len(eListeners)
                     /\ \A k \in 1 .. Len(eListeners) :
                          LET event == eEvents'[Len(eEvents) + k]
                          IN /\ event.listener = k
                             /\ event.source = IF eQueue[i].kind = "applyRemote"
                                                 THEN "remote" ELSE "local"
                             /\ { event.hints[n] : n \in 1 .. Len(event.hints) } = expected
                             /\ Len(event.hints) = Cardinality(expected)]_vars


\* C24 as stated, for the engine's subscribers: when an operation that wrote
\* a row returns, every subscribed listener is invoked with its event,
\* whether or not another listener throws.
C24_ThrowingListenerIsolated ==
  [][\A i \in 1 .. Len(eQueue) :
       Returns(i) /\ WrittenTriples(eQueue[i].outcomes) # { }
       => \A k \in 1 .. Len(eListeners) :
            \E n \in (Len(eEvents) + 1) .. Len(eEvents') : eEvents'[n].listener = k]_vars


\* ------------------------------------------ C25: serverChanges on the queue
\* the head operation of client c's queue, an event apply, takes a step
HeadEventMoves(c) ==
  /\ Len(sLoop[c].queue) >= 1
  /\ sLoop[c].queue[1].kind = "event"
  /\ \/ Len(sLoop'[c].queue) < Len(sLoop[c].queue)
     \/ sLoop'[c].queue[1].pc # sLoop[c].queue[1].pc

\* an event apply is in progress only as the head of the queue, with no
\* cycle begun and not settled
EventAppliesAlone(c) ==
  \A i \in 1 .. Len(sLoop[c].queue) :
    sLoop[c].queue[i].kind = "event" /\ sLoop[c].queue[i].pc # "queued"
    => i = 1 /\ Running(c) = { 1 }

\* its turn come, the event's changes are applied with one applyRemote and
\* the operation settles
EventAppliedOnce(c) ==
  HeadEventMoves(c) /\ sLoop[c].queue[1].pc = "applyRemote"
  => /\ Len(sLoop'[c].queue) = Len(sLoop[c].queue) - 1
     /\ sStore'[c].rows
          = applyRows(sStore[c].rows, DefaultNamespace, sLoop[c].queue[1].changes).rows

QueuedCycles(queue) ==
  { i \in 1 .. Len(queue) : queue[i].kind = "cycle" /\ queue[i].pc = "queued" }

AllCycles(queue) == { i \in 1 .. Len(queue) : queue[i].kind = "cycle" }

\* C26: while the state is not connected no timer is pending; a step that
\* takes a started loop into connected leaves no timer pending and a cycle
\* queued at once (the one it appends, or the one already queued and not
\* begun); a step that leaves the state other than connected leaves no
\* timer pending and adds no cycle to the queue.
C26_TransitionsCancelAndQueue ==
  /\ [](\A c \in sClients : ~isConnected(c) => ~sLoop[c].timer)
  /\ [][\A c \in sClients :
          /\ /\ sConn'[c] = "connected"
             /\ sConn[c] # "connected"
             /\ sLoop[c].started
             => /\ ~sLoop'[c].timer
                /\ sLoop'[c].syncQueued
                /\ QueuedCycles(sLoop'[c].queue) # { }
                /\ ~sLoop[c].syncQueued
                   => /\ Len(sLoop'[c].queue) = Len(sLoop[c].queue) + 1
                      /\ Len(sLoop'[c].queue) \in QueuedCycles(sLoop'[c].queue)
          /\ sConn'[c] # "connected"
             => /\ ~sLoop'[c].timer
                /\ Cardinality(AllCycles(sLoop'[c].queue))
                     <= Cardinality(AllCycles(sLoop[c].queue))]_vars

\* C26 witness: a cycle was in its pull when the connection was lost; the
\* state is connected again and a second cycle is queued behind the first,
\* with no timer pending
C26_Witness ==
  \E c \in sClients :
    /\ isConnected(c)
    /\ sLoop[c].started
    /\ ~sLoop[c].timer
    /\ sLoop[c].syncQueued
    /\ Len(sLoop[c].queue) = 2
    /\ sLoop[c].queue[1].kind = "cycle"
    /\ sLoop[c].queue[1].pc = "pull"
    /\ sLoop[c].queue[2].kind = "cycle"
    /\ sLoop[c].queue[2].pc = "queued"
    /\ gLeft.stops < SyncStops


\* ------------------------------- C27: a transport that acknowledges nothing
NoAckWrites == 2

\* push answers {} or { acknowledgedThroughSequence: 1 }
StaleAcks == { 0, 1 }

\* a store whose engine appended sequence 1 before, acknowledged and removed
\* since: every pending entry to come has a sequence of 2 or more
UsedStore == [NewStore(NoCursor) EXCEPT !.nextSeq = 2]

InitNoAck ==
  /\ sClients = { "A" }
  /\ sTransport = "scripted"
  /\ sScript = [acks |-> StaleAcks, responses |-> FewResponses,
                ops |-> [c \in sClients |-> SyncOps], driver |-> DriverStates,
                onError |-> FALSE]
  /\ sLoop = [c \in sClients |-> NewLoop]
  /\ sConn \in [sClients -> { "offline", "connected" }]
  /\ sStore = [c \in sClients |-> UsedStore]
  /\ tServer = [rows |-> << >>, last |-> 0]
  /\ tReturned = [c \in sClients |-> { }]
  /\ gMax = << >>
  /\ gLeft = [writes |-> NoAckWrites, stops |-> SyncStops, events |-> SyncEvents]
  /\ gQuiet = FALSE
  /\ IdleHlc
  /\ IdleRows
  /\ IdleEng
  /\ IdleConn

\* the steps of the loop when no push is acknowledged: removePendingThrough
\* is never called
NextNoAck ==
  \E c \in sClients :
    \/ Start(c)
    \/ Stop(c)
    \/ ConnectionChange(c)
    \/ TimerFire(c)
    \/ LocalWrite(c)
    \/ TransportEvent(c)
    \/ CycleBegin(c)
    \/ PushGot(c)
    \/ PushRespondScripted(c)
    \/ PullCursorRead(c)
    \/ PullRespondScripted(c)
    \/ TransportRejects(c)
    \/ PullApplied(c)
    \/ PullPersisted(c)
    \/ CycleFinally(c)
    \/ EventBegin(c)
    \/ EventApplied(c)
    \/ FlushRun(c)

SpecNoAck == InitNoAck /\ [][NextNoAck]_vars

\* the operation at the head of client c's queue is still there after the step
HeadStays(c) ==
  /\ Len(sLoop[c].queue) >= 1
  /\ Len(sLoop'[c].queue) >= Len(sLoop[c].queue)

\* C27: when every push is answered without an acknowledgement, or with
\* one below the first pushed sequence, a cycle calls push at most once
\* (only a cycle that has not pushed yet calls it), the response ends the
\* push phase (the cycle goes on to its pull phase or, stopped or
\* disconnected, to its end), and the pending log loses no entry.
C27_PushAntiSpin ==
  [][\A c \in sClients :
       /\ \A k \in 1 .. Len(sStore[c].pending) :
            /\ k <= Len(sStore'[c].pending)
            /\ sStore'[c].pending[k] = sStore[c].pending[k]
       /\ HeadStays(c)
          => /\ /\ sLoop[c].queue[1].pc # "push"
                /\ sLoop'[c].queue[1].pc = "push"
                => /\ sLoop[c].queue[1].lastFirst = 0
                   /\ sLoop'[c].queue[1].batch # << >>
             /\ /\ sLoop[c].queue[1].pc = "push"
                /\ sLoop'[c].queue[1].pc # "push"
                => /\ sLoop'[c].queue[1].pc \in { "readCursor", "finally" }
                   /\ sStore'[c].pending = sStore[c].pending
       /\ sLoop[c].queue # << >> /\ sLoop[c].queue[1].pc = "push" => HeadStays(c)]_vars

\* C27 witness: the cycle pushed the entry of sequence 2, got no usable
\* acknowledgement and is now pulling; the entry is still pending
C27_Witness ==
  \E c \in sClients :
    /\ Len(sLoop[c].queue) >= 1
    /\ sLoop[c].queue[1].kind = "cycle"
    /\ sLoop[c].queue[1].pc = "pull"
    /\ ~sLoop[c].queue[1].threw
    /\ sLoop[c].queue[1].lastFirst = 2
    /\ Len(sStore[c].pending) = 2
    /\ sStore[c].pending[1].sequence = 2


\* ------------------------------------ C28: a has_more page without progress
\* the head of client c's queue is a cycle whose pull resolves in this step
\* with has_more = TRUE and a next_cursor absent or equal to the cursor sent
StalePageArrives(c) ==
  /\ HeadStays(c)
  /\ sLoop[c].queue[1].pc = "pull"
  /\ sLoop'[c].queue[1].response.received
  /\ sLoop'[c].queue[1].response.hasMore
  /\ \/ sLoop'[c].queue[1].response.nextCursor = NoCursor
     \/ cursorsEqual(sLoop[c].queue[1].cursor, sLoop'[c].queue[1].response.nextCursor)

\* the head of client c's queue is applying the changes of such a page
StalePageApplying(c) ==
  /\ Len(sLoop[c].queue) >= 1
  /\ sLoop[c].queue[1].kind = "cycle"
  /\ sLoop[c].queue[1].pc = "applyRemote"
  /\ sLoop[c].queue[1].response.hasMore
  /\ \/ sLoop[c].queue[1].response.nextCursor = NoCursor
     \/ cursorsEqual(sLoop[c].queue[1].cursor, sLoop[c].queue[1].response.nextCursor)

\* C28: a pull response with has_more = TRUE whose next_cursor is absent
\* or equal to the cursor sent ends the pull phase: the cycle goes to its
\* end (through apply_remote when the page carries changes) without
\* touching the cursor in KV, and never calls pull again, since a pull
\* is only called first in the phase or after a cursor that advanced was
\* persisted; when the page answers the first pull of the cycle that is
\* the cycle's only pull.
C28_PullAntiSpin ==
  [][\A c \in sClients :
       /\ StalePageArrives(c)
          => /\ sLoop'[c].queue[1].pc \in { "applyRemote", "finally" }
             /\ sLoop'[c].queue[1].pc = "applyRemote"
                <=> sLoop'[c].queue[1].response.changes # << >>
             /\ sLoop'[c].queue[1].firstPull = sLoop[c].queue[1].firstPull
             /\ sStore'[c].kv = sStore[c].kv
       /\ StalePageApplying(c)
          => /\ HeadStays(c)
             /\ sLoop'[c].queue[1].pc \in { "applyRemote", "finally" }
             /\ sLoop'[c].queue[1].firstPull = sLoop[c].queue[1].firstPull
             /\ sStore'[c].kv = sStore[c].kv
       /\ /\ HeadStays(c)
          /\ sLoop[c].queue[1].pc # "pull"
          /\ sLoop'[c].queue[1].pc = "pull"
          => \/ sLoop[c].queue[1].pc = "readCursor" /\ sLoop'[c].queue[1].firstPull
             \/ /\ sLoop[c].queue[1].pc = "persistCursor"
                /\ ~sLoop'[c].queue[1].firstPull
                /\ sLoop[c].queue[1].response.nextCursor # NoCursor
                /\ sStore[c].kv = sLoop[c].queue[1].response.nextCursor
       /\ /\ HeadStays(c)
          /\ sLoop[c].queue[1].pc = "finally"
          => sLoop'[c].queue[1] = sLoop[c].queue[1]]_vars

\* C28 witness: the first pull of a cycle sent the cursor of KV and was
\* answered with a change, has_more = TRUE and that same cursor; the cycle
\* is at its end and KV holds the cursor it held
C28_Witness ==
  \E c \in sClients :
    /\ Len(sLoop[c].queue) >= 1
    /\ sLoop[c].queue[1].kind = "cycle"
    /\ sLoop[c].queue[1].pc = "finally"
    /\ ~sLoop[c].queue[1].threw
    /\ sLoop[c].queue[1].firstPull
    /\ sLoop[c].queue[1].response.received
    /\ sLoop[c].queue[1].response.hasMore
    /\ sLoop[c].queue[1].response.changes = << RemoteZ >>
    /\ sLoop[c].queue[1].cursor = Cursor(1, Books, B2)
    /\ sLoop[c].queue[1].response.nextCursor = Cursor(1, Books, B2)
    /\ sStore[c].kv = Cursor(1, Books, B2)


\* --------------------------------------- the adapter given batches of rows
MaxBatch == 3

BatchHlcs == { << 1, 2, DevZ >>, << 2, 0, DevA >> }

\* live rows of ("a", "b::c") and ("a", "x") under two HLC triples, and
\* one row of another namespace
BatchRows ==
  { r \in WriteRows({ IdentA, IdentX }, BatchHlcs) : ~r.tombstone }
    \cup ForeignRows({ IdentA }, BatchHlcs)

BatchesUpTo(rows, n) == UNION { [1 .. m -> rows] : m \in 1 .. n }

\* applyRows(batch) is called and settles: async, without an await, so
\* nothing runs between its first statement and its last
ApplyBatchCall ==
  \E batch \in BatchesUpTo(BatchRows, MaxBatch) :
    LET r == applyRows(aRows, DefaultNamespace, batch)
    IN /\ aRows' = r.rows
       /\ aCall' = << [batch |-> batch, ok |-> r.ok, outcomes |-> r.outcomes] >>
       /\ aSeen' = IF r.ok THEN SeenAfter(aSeen, batch) ELSE aSeen
       /\ aReplaced' = (aReplaced \/ \E k \in DOMAIN aRows : r.rows[k] # aRows[k])
       /\ aRejected' = (aRejected \/ \E n \in 1 .. Len(r.outcomes) : ~r.outcomes[n].written)
       /\ UNCHANGED << aIdents, aHlcs, notRows >>

InitBatch ==
  /\ aIdents = { IdentA, IdentX }
  /\ aHlcs = BatchHlcs
  /\ aRows = << >>
  /\ aSeen = [i \in aIdents |-> { }]
  /\ aReplaced = FALSE
  /\ aRejected = FALSE
  /\ aCall = << >>
  /\ IdleHlc
  /\ IdleEng
  /\ IdleSync
  /\ IdleConn

NextBatch ==
  \/ ApplyBatchCall

SpecBatch == InitBatch /\ [][NextBatch]_vars

HasForeign(batch) == \E k \in 1 .. Len(batch) : batch[k].namespace # DefaultNamespace

\* C29: a call whose batch holds a row of another namespace is rejected,
\* and only such a call is; a rejected call leaves the store exactly as
\* it was, also where valid rows came before the offending one; after a
\* call that resolved, every row of the batch is stored or lost to a more
\* recent row, and every stored row was stored before or is a row of the
\* batch: what a query reads between two steps is never part of a batch.
C29_ForeignRowRejectsWholeBatch ==
  [][aCall' # << >> =>
       LET call == aCall'[1]
       IN /\ call.ok <=> ~HasForeign(call.batch)
          /\ ~call.ok => aRows' = aRows /\ call.outcomes = << >>
          /\ call.ok =>
               /\ \A k \in 1 .. Len(call.batch) : Dominated(aRows', call.batch[k])
               /\ \A key \in DOMAIN aRows' :
                    \/ key \in DOMAIN aRows /\ aRows'[key] = aRows[key]
                    \/ \E k \in 1 .. Len(call.batch) : aRows'[key] = call.batch[k]]_vars

\* C29 witness: a batch of two valid rows and then a foreign one was
\* rejected, and neither valid row is in the store
C29_Witness ==
  /\ aCall # << >>
  /\ ~aCall[1].ok
  /\ Len(aCall[1].batch) = 3
  /\ aCall[1].batch[1].namespace = DefaultNamespace
  /\ aCall[1].batch[2].namespace = DefaultNamespace
  /\ aCall[1].batch[3].namespace = OtherNamespace
  /\ IdentOf(aCall[1].batch[1]) = IdentA
  /\ IdentOf(aCall[1].batch[2]) = IdentX
  /\ rowKey(IdentA[1], IdentA[2]) \notin DOMAIN aRows
  /\ rowKey(IdentX[1], IdentX[2]) \notin DOMAIN aRows

\* the rows row k of a batch has to beat: the row stored for its identity
\* before the call and the rows of its identity earlier in the batch
Rivals(stored, batch, k) ==
  { stored[key] : key \in { q \in DOMAIN stored : q = rowKey(batch[k].collectionId, batch[k].id) } }
    \cup { batch[j] : j \in { n \in 1 .. k - 1 : IdentOf(batch[n]) = IdentOf(batch[k]) } }

\* C30: a call that resolved returns one outcome per row of its batch, in
\* the order of the batch, and row k is written exactly when its HLC is
\* strictly greater than that of the row stored before the call and of
\* every earlier row of its identity in the batch; the row stored for an
\* identity after the call is the last row of the batch written for it.
C30_OutcomesInOrderAgainstEarlierRows ==
  [][(aCall' # << >> /\ aCall'[1].ok) =>
       LET call == aCall'[1]
       IN /\ Len(call.outcomes) = Len(call.batch)
          /\ \A k \in 1 .. Len(call.batch) :
               /\ call.outcomes[k].collectionId = call.batch[k].collectionId
               /\ call.outcomes[k].id = call.batch[k].id
               /\ HlcOf(call.outcomes[k]) = HlcOf(call.batch[k])
               /\ call.outcomes[k].written
                  <=> \A p \in Rivals(aRows, call.batch, k) :
                        HlcGreater(HlcOf(call.batch[k]), HlcOf(p))
               /\ (/\ call.outcomes[k].written
                   /\ \A j \in k + 1 .. Len(call.batch) :
                        IdentOf(call.batch[j]) = IdentOf(call.batch[k])
                          => ~call.outcomes[j].written)
                  => aRows'[rowKey(call.batch[k].collectionId, call.batch[k].id)] = call.batch[k]]_vars

\* C30 witness: one identity three times in a batch, twice with the same
\* HLC triple and then with a greater one: written, not written, written,
\* and the last row is the one stored
C30_Witness ==
  /\ aCall # << >>
  /\ aCall[1].ok
  /\ Len(aCall[1].batch) = 3
  /\ \A k \in 1 .. 3 : IdentOf(aCall[1].batch[k]) = IdentA
  /\ HlcOf(aCall[1].batch[1]) = << 1, 2, DevZ >>
  /\ HlcOf(aCall[1].batch[2]) = << 1, 2, DevZ >>
  /\ HlcOf(aCall[1].batch[3]) = << 2, 0, DevA >>
  /\ aCall[1].outcomes[1].written
  /\ ~aCall[1].outcomes[2].written
  /\ aCall[1].outcomes[3].written
  /\ aRows[rowKey(IdentA[1], IdentA[2])] = aCall[1].batch[3]


\* ------------------------------------------ C31: deleteAllWithParent alone
\* "b3", "p2", "notes"
B3 == << 98, 51 >>
P2 == << 112, 50 >>
Notes == << 110, 111, 116, 101, 115 >>

\* rows another device wrote: two live children of p1 and a tombstoned
\* one, a live child of p2, and a child of p1 in another collection
ChildRows ==
  { Row(DefaultNamespace, Books, B1, P1, "s1", FALSE, 1, 0, 0, DevZ),
    Row(DefaultNamespace, Books, B2, P1, "s2", FALSE, 2, 0, 0, DevZ),
    Row(DefaultNamespace, Books, B3, P2, "s3", FALSE, 3, 0, 0, DevZ),
    Row(DefaultNamespace, Books, P1, P1, "null", TRUE, 4, 0, 0, DevZ),
    Row(DefaultNamespace, Notes, B1, P1, "s5", FALSE, 5, 0, 0, DevZ) }

StoreOf(rows) ==
  [k \in { rowKey(r.collectionId, r.id) : r \in rows } |->
     CHOOSE r \in rows : rowKey(r.collectionId, r.id) = k]

\* deleteAllWithParent(collectionId, parentId): queue.run(...)
EngDeleteParentCall ==
  /\ eCalls < MaxEngineCalls
  /\ \E collectionId \in { Books, Notes }, parentId \in { P1, P2 } :
       eQueue' = Append(eQueue, EngTask("deleteAllWithParent",
                   << [type |-> "deleteAllWithParent", collectionId |-> collectionId,
                       id |-> AnyId, data |-> "null", parentId |-> parentId] >>, << >>))
  /\ eCalls' = eCalls + 1
  /\ UNCHANGED << eNodeId, eClock, eRows, ePending, eNextSeq, eResults, eAppended,
                  eListeners, eEvents, notEng >>

InitParent ==
  /\ eNodeId = DevA
  /\ eClock = NoClock
  /\ \E seeds \in SUBSET ChildRows : eRows = StoreOf(seeds)
  /\ ePending = << >>
  /\ eNextSeq = 1
  /\ eQueue = << >>
  /\ eResults = << >>
  /\ eAppended = << >>
  /\ eCalls = 0
  /\ eListeners = << QuietListener >>
  /\ eEvents = << >>
  /\ IdleHlc
  /\ IdleRows
  /\ IdleSync
  /\ IdleConn

NextParent ==
  \/ EngDeleteParentCall
  \/ EngResolveParent
  \/ EngAlloc
  \/ EngApply
  \/ EngAppend
  \/ EngFinish

SpecParent == InitParent /\ [][NextParent]_vars

\* deleteAllWithParent at position i of the queue has its rows applied in
\* this step
ParentDeleteApplies(i) ==
  /\ i <= Len(eQueue)
  /\ eQueue[i].kind = "deleteAllWithParent"
  /\ eQueue[i].pc = "stamped"
  /\ Len(eQueue') = Len(eQueue)
  /\ eQueue'[i].pc = "applied"

\* the live rows of the collection and parent the call names
LiveChildren(rows, collectionId, parentId) ==
  { k \in DOMAIN rows : /\ rows[k].collectionId = collectionId
                        /\ rows[k].parentId = parentId
                        /\ ~rows[k].tombstone }

IsTombstoneOf(row, old, device) ==
  /\ row.collectionId = old.collectionId
  /\ row.id = old.id
  /\ row.parentId = old.parentId
  /\ row.tombstone
  /\ row.data = "null"
  /\ row.hlcDeviceId = device

\* C31 as stated: every live row of the collection and parent is
\* tombstoned by the call, and every other row is left as it was.
C31_EveryChildTombstoned ==
  [][\A i \in 1 .. Len(eQueue) :
       ParentDeleteApplies(i) =>
         LET op == eQueue[i].ops[1]
             children == LiveChildren(eRows, op.collectionId, op.parentId)
         IN /\ DOMAIN eRows' = DOMAIN eRows
            /\ \A k \in children : IsTombstoneOf(eRows'[k], eRows[k], eNodeId)
            /\ \A k \in DOMAIN eRows \ children : eRows'[k] = eRows[k]]_vars

\* C31: the call stamps exactly one tombstone for each live row of the
\* collection and parent, keeping the parent; the tombstone is stored
\* when its HLC is greater than the stored row's, and otherwise the row
\* stays as it was and the result says applied = FALSE; every other row
\* (other parent, other collection, already tombstoned) is left as it was
\* and a live one is still live.
C31_ChildrenTombstonedUnlessNewer ==
  [][\A i \in 1 .. Len(eQueue) :
       ParentDeleteApplies(i) =>
         LET op == eQueue[i].ops[1]
             children == LiveChildren(eRows, op.collectionId, op.parentId)
             outcomes == eQueue'[i].outcomes
         IN /\ DOMAIN eRows' = DOMAIN eRows
            /\ Len(outcomes) = Cardinality(children)
            /\ \A k \in children :
                 \E n \in 1 .. Len(outcomes) :
                   /\ rowKey(outcomes[n].collectionId, outcomes[n].id) = k
                   /\ \A m \in 1 .. Len(outcomes) :
                        rowKey(outcomes[m].collectionId, outcomes[m].id) = k => m = n
                   /\ outcomes[n].tombstone
                   /\ outcomes[n].parentId = op.parentId
                   /\ outcomes[n].written <=> HlcGreater(HlcOf(outcomes[n]), HlcOf(eRows[k]))
                   /\ IF outcomes[n].written
                        THEN /\ IsTombstoneOf(eRows'[k], eRows[k], eNodeId)
                             /\ HlcOf(eRows'[k]) = HlcOf(outcomes[n])
                        ELSE eRows'[k] = eRows[k]
            /\ \A k \in DOMAIN eRows \ children :
                 /\ eRows'[k] = eRows[k]
                 /\ asLiveRow(eRows'[k]) = asLiveRow(eRows[k])]_vars

\* C31 witness: over the five rows, deleteAllWithParent("books", "p1")
\* returned two applied results; b1 and b2 are tombstones of this device
\* under p1, and b3, the old tombstone and the note are as they were
C31_Witness ==
  /\ DOMAIN eRows = DOMAIN StoreOf(ChildRows)
  /\ eQueue = << >>
  /\ Len(eResults) = 2
  /\ \A n \in 1 .. 2 : eResults[n].applied /\ eResults[n].tombstone /\ eResults[n].parentId = P1
  /\ \A id \in { B1, B2 } :
       IsTombstoneOf(eRows[rowKey(Books, id)], StoreOf(ChildRows)[rowKey(Books, id)], DevA)
  /\ \A k \in { rowKey(Books, B3), rowKey(Books, P1), rowKey(Notes, B1) } :
       eRows[k] = StoreOf(ChildRows)[k]



\* ----------------------------------- connection/createConnectionManager
MaxDriverCalls == 3

\* the functions handed to subscribe: two that return, one that throws
StateListeners ==
  { [id |-> 1, throws |-> FALSE], [id |-> 2, throws |-> FALSE],
    [id |-> 3, throws |-> TRUE] }

RECURSIVE CalledFrom(_, _)
\* for (const listener of listeners) listener(state), from listener k on:
\* the listeners called; one that throws ends the loop
CalledFrom(listeners, k) ==
  IF k > Len(listeners) THEN << >>
  ELSE IF listeners[k].throws THEN << listeners[k].id >>
  ELSE << listeners[k].id >> \o CalledFrom(listeners, k + 1)

\* the callback given to input.driver.subscribe is called with nextState
ConnDriverCallback ==
  \E nextState \in DriverStates :
    /\ cCount < MaxDriverCalls
    /\ cCount' = cCount + 1
    /\ cDriver' = nextState
    /\ IF cState = nextState
         THEN /\ cState' = cState
              /\ cCalled' = << >>
         ELSE /\ cState' = nextState
              /\ cCalled' = CalledFrom(cListeners, 1)
    /\ UNCHANGED << cListeners, notConn >>

\* subscribe(listener): listeners.add(listener)
ConnSubscribe ==
  \E listener \in StateListeners :
    /\ \A k \in 1 .. Len(cListeners) : cListeners[k] # listener
    /\ cListeners' = Append(cListeners, listener)
    /\ UNCHANGED << cState, cDriver, cCalled, cCount, notConn >>

\* the function subscribe returned is called: listeners.delete(listener)
ConnUnsubscribe ==
  \E k \in 1 .. Len(cListeners) :
    /\ cListeners' = RemoveAt(cListeners, k)
    /\ UNCHANGED << cState, cDriver, cCalled, cCount, notConn >>

InitConn ==
  /\ cState \in DriverStates
  /\ cListeners = << >>
  /\ cDriver = "none"
  /\ cCalled = << >>
  /\ cCount = 0
  /\ IdleHlc
  /\ IdleRows
  /\ IdleEng
  /\ IdleSync

NextConn ==
  \/ ConnDriverCallback
  \/ ConnSubscribe
  \/ ConnUnsubscribe

SpecConn == InitConn /\ [][NextConn]_vars

\* C32: get_state() is the state the driver delivered last, and the
\* initial state as long as it delivered none; a driver callback whose
\* state differs from the current one calls every subscriber once, and a
\* callback that repeats the current state calls none.
C32_StateAndDedup ==
  /\ [](cDriver # "none" => cState = cDriver)
  /\ [][/\ cDriver' = "none" => cState' = cState
        /\ cCount' # cCount =>
             cCalled' = IF cDriver' # cState
                          THEN [k \in 1 .. Len(cListeners) |-> cListeners[k].id]
                          ELSE << >>]_vars

\* --------------------------------- C33: the loop left alone after a while
WakeWrites == 1
WakeStops == 2
WakeEvents == 1

InitWake ==
  /\ sClients = { "A" }
  /\ sTransport = "scripted"
  /\ sScript = [acks |-> FewAcks, responses |-> FewResponses,
                ops |-> [c \in sClients |-> SyncOps], driver |-> DriverStates,
                onError |-> FALSE]
  /\ sLoop = [c \in sClients |-> NewLoop]
  /\ sConn \in [sClients -> { "offline", "connected" }]
  /\ sStore = [c \in sClients |-> NewStore(NoCursor)]
  /\ tServer = [rows |-> << >>, last |-> 0]
  /\ tReturned = [c \in sClients |-> { }]
  /\ gMax = << >>
  /\ gLeft = [writes |-> WakeWrites, stops |-> WakeStops, events |-> WakeEvents]
  /\ gQuiet = FALSE
  /\ IdleHlc
  /\ IdleRows
  /\ IdleEng
  /\ IdleConn

\* what the event loop, the timer and a transport that answers do for
\* client c sooner or later
WakeProgress(c) ==
  \/ TimerFire(c)
  \/ CycleBegin(c)
  \/ PushGot(c)
  \/ PushRespondScripted(c)
  \/ PushRemoved(c)
  \/ PullCursorRead(c)
  \/ PullRespondScripted(c)
  \/ PullApplied(c)
  \/ PullPersisted(c)
  \/ CycleFinally(c)
  \/ EventBegin(c)
  \/ EventApplied(c)
  \/ FlushRun(c)

NextWake ==
  \/ Quiesce
  \/ \E c \in sClients :
       \/ Start(c)
       \/ Stop(c)
       \/ ConnectionChange(c)
       \/ LocalWrite(c)
       \/ TransportEvent(c)
       \/ TransportRejects(c)
       \/ WakeProgress(c)

SpecWake ==
  /\ InitWake
  /\ [][NextWake]_vars
  /\ \A c \in { "A" } : WF_vars(WakeProgress(c))

\* a cycle of client c has begun and is at its first storage call
CycleStarting(c) ==
  /\ Len(sLoop[c].queue) >= 1
  /\ sLoop[c].queue[1].kind = "cycle"
  /\ sLoop[c].queue[1].pc = "getPending"
  /\ sLoop[c].queue[1].lastFirst = 0

\* C33: a loop that is started and connected always has a cycle running
\* or queued, or its timer armed; and once nothing stops or disconnects
\* it any more, whatever timer firings, connection flaps, transport
\* events and stop()/start() pairs came before, cycles keep starting.
C33_NoLostWakeUp ==
  /\ [](\A c \in sClients :
          Active(c) => (sLoop[c].timer \/ AllCycles(sLoop[c].queue) # { }))
  /\ \A c \in { "A" } : gQuiet ~> CycleStarting(c)

\* C33 witness: after two interruptions (a stop() resolved among them) the
\* run went quiet; a cycle has completed and the timer is armed
C33_Witness ==
  \E c \in sClients :
    /\ gQuiet
    /\ gLeft.stops = 0
    /\ gLeft.events = 0
    /\ Active(c)
    /\ sLoop[c].queue = << >>
    /\ sLoop[c].timer
    /\ sStore[c].kv = Cursor(1, Books, B2)

\* C34: at most one cycle is waiting in the loop's queue, enqueued and
\* not yet begun, and a step adds a cycle to the queue only when none
\* was waiting.
C34_AtMostOneCycleWaiting ==
  /\ [](\A c \in sClients : Cardinality(QueuedCycles(sLoop[c].queue)) <= 1)
  /\ [][\A c \in sClients :
          Cardinality(QueuedCycles(sLoop'[c].queue)) > Cardinality(QueuedCycles(sLoop[c].queue))
            => QueuedCycles(sLoop[c].queue) = { }]_vars

\* ------------------------------------------ C35: the steps of one cycle
OrderWrites == 2

\* pages that go on, a page storage.applyRemote rejects, a last page
OrderResponses ==
  { Response(<< >>, NoCursor, FALSE),
    Response(<< RemoteZ >>, Cursor(1, Books, B2), TRUE),
    Response(<< ForeignZ >>, Cursor(2, Books, B1), TRUE),
    Response(<< >>, Cursor(2, Books, B1), FALSE) }

OrderAcks == { 0, 1, 2 }

InitOrder ==
  /\ sClients = { "A" }
  /\ sTransport = "scripted"
  /\ sScript = [acks |-> OrderAcks, responses |-> OrderResponses,
                ops |-> [c \in sClients |-> SyncOps], driver |-> DriverStates,
                onError |-> TRUE]
  /\ sLoop = [c \in sClients |-> NewLoop]
  /\ sConn \in [sClients -> { "offline", "connected" }]
  /\ sStore = [c \in sClients |-> NewStore(NoCursor)]
  /\ tServer = [rows |-> << >>, last |-> 0]
  /\ tReturned = [c \in sClients |-> { }]
  /\ gMax = << >>
  /\ gLeft = [writes |-> OrderWrites, stops |-> SyncStops, events |-> SyncEvents]
  /\ gQuiet = FALSE
  /\ IdleHlc
  /\ IdleRows
  /\ IdleEng
  /\ IdleConn

SpecOrder == InitOrder /\ [][Next]_vars

\* the calls a cycle can be waiting on, and which may follow which
PushSteps == { "getPending", "push", "removePending" }
PullSteps == { "readCursor", "pull", "applyRemote", "persistCursor" }

StepAfter(pc) ==
  CASE pc = "queued" -> { "getPending" }
    [] pc = "getPending" -> { "push", "readCursor", "finally" }
    [] pc = "push" -> { "removePending", "readCursor", "finally" }
    [] pc = "removePending" -> { "getPending", "readCursor", "finally" }
    [] pc = "readCursor" -> { "pull", "finally" }
    [] pc = "pull" -> { "applyRemote", "persistCursor", "finally" }
    [] pc = "applyRemote" -> { "persistCursor", "finally" }
    [] pc = "persistCursor" -> { "pull", "finally" }
    [] OTHER -> { }

\* C35: a cycle goes get_pending, push, remove_pending_through, repeated,
\* and only then get_kv, pull, apply_remote, put_kv, repeated: a pull is
\* called only after the cursor was read or persisted, never from the
\* push phase, and the push phase is not entered again; pending entries
\* are removed only on a push response; the cursor in KV changes only
\* when put_kv is called, to the next_cursor of the page, and for a page
\* with changes only once apply_remote has resolved; an apply_remote that
\* fails ends the cycle with the cursor in KV as it was.
C35_StepsInOrder ==
  [][\A c \in sClients :
       LET q == sLoop[c].queue
           after == sLoop'[c].queue
           runs == /\ Len(q) >= 1
                   /\ Len(after) >= Len(q)
                   /\ q[1].kind = "cycle"
       IN /\ (runs /\ after[1].pc # q[1].pc)
             => /\ after[1].pc \in StepAfter(q[1].pc)
                /\ after[1].pc = "pull" => q[1].pc \in { "readCursor", "persistCursor" }
                /\ q[1].pc \in PullSteps => after[1].pc \notin PushSteps
          /\ (\E k \in 1 .. Len(sStore[c].pending) :
                \A m \in 1 .. Len(sStore'[c].pending) :
                  sStore'[c].pending[m] # sStore[c].pending[k])
             => (runs /\ q[1].pc = "push" /\ after[1].pc = "removePending")
          /\ sStore'[c].kv # sStore[c].kv
             => /\ runs
                /\ after[1].pc = "persistCursor"
                /\ sStore'[c].kv = after[1].response.nextCursor
                /\ IF after[1].response.changes = << >>
                     THEN q[1].pc = "pull"
                     ELSE q[1].pc = "applyRemote"
          /\ (runs /\ q[1].pc = "pull" /\ after[1].response.changes # << >>
                /\ after[1].response.received)
             => (after[1].pc = "applyRemote" /\ sStore'[c].kv = sStore[c].kv)
          /\ (runs /\ q[1].pc = "applyRemote" /\ after[1].threw)
             => (after[1].pc = "finally" /\ sStore'[c] = sStore[c])]_vars

\* C35 witness: a cycle pushed, pulled a first page that was applied and
\* its cursor persisted, then a second page whose apply_remote failed:
\* the cycle ends with the first page's cursor in KV
C35_Witness ==
  \E c \in sClients :
    /\ Len(sLoop[c].queue) >= 1
    /\ sLoop[c].queue[1].kind = "cycle"
    /\ sLoop[c].queue[1].pc = "finally"
    /\ sLoop[c].queue[1].threw
    /\ sLoop[c].queue[1].lastFirst # 0
    /\ ~sLoop[c].queue[1].firstPull
    /\ sLoop[c].queue[1].response.changes = << ForeignZ >>
    /\ sStore[c].kv = Cursor(1, Books, B2)
    /\ Dominated(sStore[c].rows, RemoteZ)

\* ------------------------------------------------ C36: peek() among calls
\* peek(): load(); when the clock is not loaded yet load() awaits
\* storage.read(), otherwise it returns current at once
HlcPeekCall ==
  /\ hCalls < MaxCalls
  /\ hCalls' = hCalls + 1
  /\ hPeeks' = IF hHasLoaded THEN hPeeks ELSE Append(hPeeks, hStored)
  /\ UNCHANGED << hNodeId, hStored, hCurrent, hHasLoaded, hQueue, hIssued, notHlc >>

\* the storage.read() of a peek() resolves: current = value read;
\* hasLoaded = true
HlcPeekLoaded ==
  \E k \in 1 .. Len(hPeeks) :
    /\ hCurrent' = hPeeks[k]
    /\ hHasLoaded' = TRUE
    /\ hPeeks' = RemoveAt(hPeeks, k)
    /\ UNCHANGED << hNodeId, hStored, hQueue, hIssued, hCalls, notHlc >>

NextPeek ==
  \/ NextHlc
  \/ HlcPeekCall
  \/ HlcPeekLoaded

SpecPeek == InitHlc /\ [][NextPeek]_vars

\* C36: with peek() calls overlapping the mutating calls, the cached
\* clock is never set back (it changes only to a greater clock), and every
\* clock issued is strictly greater than every clock issued before.
C36_PeekKeepsMonotonic ==
  /\ [](\A i, j \in 1 .. Len(hIssued) :
          i < j => ClockBefore(hIssued[i].clock, hIssued[j].clock))
  /\ [][(hCurrent # NoClock /\ hCurrent' # hCurrent)
          => (hCurrent' # NoClock /\ ClockBefore(hCurrent, hCurrent'))]_vars


\* ---------------------------------------------------------------------
\* Pending entries leave the log only when they were pushed
\* ---------------------------------------------------------------------

\* the pending entries of client c that a step takes out of the log
RemovedNow(c) ==
  { k \in 1 .. Len(sStore[c].pending) :
      \A n \in 1 .. Len(sStore'[c].pending) :
        sStore'[c].pending[n] # sStore[c].pending[k] }

\* C37: a pending entry is removed only when it was among the operations
\* of the push request whose response is being handled and that response
\* acknowledged a sequence at least the entry's; an entry that was not
\* sent (one beyond push_batch_size, or one written while the push was in
\* flight) stays in the log whatever sequence the transport acknowledges.
C37_OnlyPushedEntriesRemoved ==
  [][\A c \in sClients :
       \A k \in RemovedNow(c) :
         LET entry == sStore[c].pending[k]
             q == sLoop[c].queue
             after == sLoop'[c].queue
         IN /\ Len(q) >= 1
            /\ Len(after) >= 1
            /\ q[1].kind = "cycle"
            /\ q[1].pc = "push"
            /\ after[1].pc = "removePending"
            /\ \E n \in 1 .. Len(q[1].batch) : q[1].batch[n] = entry
            /\ after[1].ack >= entry.sequence]_vars


\* ---------------------------------------------------------------------
\* The pull phase against a server whose cursor goes back and forth
\* ---------------------------------------------------------------------

\* pages a server may answer with: the last page, and two pages that
\* announce more under two different cursors
TurnResponses ==
  { Response(<< >>, NoCursor, FALSE),
    Response(<< >>, Cursor(1, Books, B2), TRUE),
    Response(<< >>, Cursor(2, Books, B1), TRUE) }

InitSpin ==
  /\ sClients = { "A" }
  /\ sTransport = "scripted"
  /\ sScript = [acks |-> FewAcks, responses |-> TurnResponses,
                ops |-> [c \in sClients |-> SyncOps], driver |-> DriverStates,
                onError |-> FALSE]
  /\ sLoop = [c \in sClients |-> NewLoop]
  /\ sConn \in [sClients -> { "offline", "connected" }]
  /\ sStore = [c \in sClients |-> NewStore(NoCursor)]
  /\ tServer = [rows |-> << >>, last |-> 0]
  /\ tReturned = [c \in sClients |-> { }]
  /\ gMax = << >>
  /\ gLeft = [writes |-> WakeWrites, stops |-> WakeStops, events |-> WakeEvents]
  /\ gQuiet = FALSE
  /\ IdleHlc
  /\ IdleRows
  /\ IdleEng
  /\ IdleConn

\* every promise the loop awaits settles and every timer fires
SpecSpin ==
  InitSpin /\ [][NextWake]_vars /\ \A c \in { "A" } : WF_vars(WakeProgress(c))

\* a cycle of client c is in its pull phase
InPullPhase(c) ==
  \E i \in 1 .. Len(sLoop[c].queue) :
    /\ sLoop[c].queue[i].kind = "cycle"
    /\ sLoop[c].queue[i].pc \in PullSteps

\* C38: whatever pages the server answers with, also pages with has_more
\* whose next_cursor differs from the cursor sent without increasing (two
\* cursors taking turns), the pull phase of a cycle makes finitely many
\* pull calls and the cycle leaves the phase.
C38_PullPhaseEnds ==
  \A c \in { "A" } : InPullPhase(c) ~> ~InPullPhase(c)


\* ---------------------------------------------------------------------
\* batchLocal: resolve everything, one batch of clocks, one applyRows
\* ---------------------------------------------------------------------

\* rows another device wrote before: b1 and b2 under p1, or a b1 whose
\* HLC is ahead of this device's clock
NewerB1 == Row(DefaultNamespace, Books, B1, P1, "s6", FALSE, 6, 1, 5, DevZ)

OlderRows ==
  { Row(DefaultNamespace, Books, B1, P1, "s1", FALSE, 1, 0, 0, DevZ),
    Row(DefaultNamespace, Books, B2, P1, "s2", FALSE, 2, 0, 0, DevZ) }

LocalBatches ==
  { << PutOp(B1, "d1", P2), PutOp(B1, "d2", Absent) >>,
    << PutOp(B1, "d1", Absent), DeleteOp(B1) >>,
    << DeleteOp(B1), PutOp(B1, "d2", P2), PutOp(B2, "d1", Absent) >>,
    << PutOp(B2, "d1", P2), PutOp(B1, "d1", NullParent), PutOp(B2, "d2", Absent) >> }

\* batchLocal(operations): queue.run(...)
EngBatchLocalCall ==
  /\ eCalls < MaxEngineCalls
  /\ \E ops \in LocalBatches : eQueue' = Append(eQueue, EngTask("batchLocal", ops, << >>))
  /\ eCalls' = eCalls + 1
  /\ UNCHANGED << eNodeId, eClock, eRows, ePending, eNextSeq, eResults, eAppended,
                  eListeners, eEvents, notEng >>

InitLocalBatch ==
  /\ eNodeId = DevA
  /\ eClock = NoClock
  /\ \E seeds \in (SUBSET OlderRows) \cup { { NewerB1 } } : eRows = StoreOf(seeds)
  /\ ePending = << >>
  /\ eNextSeq = 1
  /\ eQueue = << >>
  /\ eResults = << >>
  /\ eAppended = << >>
  /\ eCalls = 0
  /\ eListeners = << QuietListener >>
  /\ eEvents = << >>
  /\ IdleHlc
  /\ IdleRows
  /\ IdleSync
  /\ IdleConn

NextLocalBatch ==
  \/ EngBatchLocalCall
  \/ EngResolve
  \/ EngAlloc
  \/ EngApply
  \/ EngAppend
  \/ EngFinish

SpecLocalBatch == InitLocalBatch /\ [][NextLocalBatch]_vars

\* the batch at place i of the queue goes from one step to the next
BatchGoes(i, from, to) ==
  /\ i <= Len(eQueue)
  /\ eQueue[i].kind = "batchLocal"
  /\ eQueue[i].pc = from
  /\ Len(eQueue') >= Len(eQueue)
  /\ eQueue'[i].pc = to

\* the places of a batch that write the key
PlacesOf(built, key) ==
  { k \in 1 .. Len(built) : rowKey(built[k].collectionId, built[k].id) = key }

LastOf(built, key) ==
  built[CHOOSE k \in PlacesOf(built, key) : \A n \in PlacesOf(built, key) : n <= k]

\* the intents are those of the operations, resolved against the store
\* before the batch
ResolvedBeforeBatch(i) ==
  BatchGoes(i, "waiting", "resolved") =>
    LET ops == eQueue[i].ops
        intents == eQueue'[i].intents
    IN /\ Len(intents) = Len(ops)
       /\ \A k \in 1 .. Len(ops) :
            /\ intents[k].kind = ops[k].type
            /\ intents[k].collectionId = ops[k].collectionId
            /\ intents[k].id = ops[k].id
            /\ intents[k].parentId =
                 IF ops[k].type = "put" /\ ops[k].parentId # Absent
                   THEN ops[k].parentId
                   ELSE StoredParent(ops[k].collectionId, ops[k].id)

\* one clock per intent, ascending in operation order
OneClockEach(i) ==
  BatchGoes(i, "resolved", "stamped") =>
    LET intents == eQueue[i].intents
        built == eQueue'[i].built
    IN /\ Len(built) = Len(intents)
       /\ \A k \in 1 .. Len(built) :
            /\ built[k].collectionId = intents[k].collectionId
            /\ built[k].id = intents[k].id
            /\ built[k].parentId = intents[k].parentId
            /\ built[k].tombstone = (intents[k].kind = "delete")
            /\ built[k].hlcDeviceId = eNodeId
       /\ \A j, k \in 1 .. Len(built) : j < k => compareHlc(built[j], built[k]) = -1

\* the store changes only in the one applyRows of a batch
AppliedOnce ==
  eRows' # eRows => \E i \in 1 .. Len(eQueue) : BatchGoes(i, "stamped", "applied")

\* C39 as stated: batch_local resolves every intent against the store as
\* it was before the batch, allocates one HLC batch with one clock per
\* intent in operation order and calls apply_rows once; a put without
\* parent_id takes the parent_id stored before the batch, and of the
\* operations of a batch on one id the last is the row stored afterwards.
C39_LastOperationStored ==
  [][/\ AppliedOnce
     /\ \A i \in 1 .. Len(eQueue) :
          /\ ResolvedBeforeBatch(i)
          /\ OneClockEach(i)
          /\ BatchGoes(i, "stamped", "applied") =>
               \A key \in DOMAIN eRows' :
                 eRows'[key] = IF PlacesOf(eQueue[i].built, key) # { }
                                 THEN LastOf(eQueue[i].built, key)
                                 ELSE eRows[key]]_vars

\* C39 (amended): as above, and of the operations of a batch on one id the
\* last is the row stored afterwards unless the store already held a row
\* of that id whose HLC is not below it; then none of the batch's rows for
\* that id is stored and the stored row stays.
C39_LastOperationStoredUnlessNewer ==
  [][/\ AppliedOnce
     /\ \A i \in 1 .. Len(eQueue) :
          /\ ResolvedBeforeBatch(i)
          /\ OneClockEach(i)
          /\ BatchGoes(i, "stamped", "applied") =>
               \A key \in DOMAIN eRows' :
                 eRows'[key] =
                   IF PlacesOf(eQueue[i].built, key) = { } THEN eRows[key]
                   ELSE IF key \in DOMAIN eRows
                           /\ compareHlc(LastOf(eQueue[i].built, key), eRows[key]) # 1
                     THEN eRows[key]
                     ELSE LastOf(eQueue[i].built, key)]_vars

\* a batch put b1 under p2 and then put b1 again without parent_id: the
\* second row carries the parent stored before the batch (p1) and is the
\* row now stored
C39_Witness ==
  \E i \in 1 .. Len(eQueue) :
    /\ eQueue[i].kind = "batchLocal"
    /\ eQueue[i].pc = "applied"
    /\ eQueue[i].ops = << PutOp(B1, "d1", P2), PutOp(B1, "d2", Absent) >>
    /\ eQueue[i].built[2].parentId = P1
    /\ eRows[rowKey(Books, B1)] = eQueue[i].built[2]


\* ---------------------------------------------------------------------
\* The in-memory transport: stamps that only grow, pages that skip nothing
\* ---------------------------------------------------------------------

\* the cycles of client c that are pulling, and the cursor each would send
PullingCursors(c) ==
  { sLoop[c].queue[i].cursor :
      i \in { n \in 1 .. Len(sLoop[c].queue) :
                /\ sLoop[c].queue[n].kind = "cycle"
                /\ sLoop[c].queue[n].pc = "pull" } }

\* a row the server holds is behind client c when a pull of c has returned
\* it
ReturnedTo(c, row) == row \in tReturned[c]

\* every row of the server is still ahead of the cursor client c sends or
\* has stored, or was returned to it
NothingSkipped(c) ==
  \A key \in DOMAIN tServer.rows :
    \/ ReturnedTo(c, tServer.rows[key])
    \/ /\ AfterCursor(tServer.rows[key], readCursor(sStore[c].kv))
       /\ \A cursor \in PullingCursors(c) : AfterCursor(tServer.rows[key], cursor)

\* a push stamps every row it stores beyond every stamp given before
StampsGrow ==
  tServer' # tServer =>
    /\ tServer'.last > tServer.last
    /\ \A key \in DOMAIN tServer'.rows :
         \/ key \in DOMAIN tServer.rows /\ tServer'.rows[key] = tServer.rows[key]
         \/ /\ tServer'.rows[key].committedTimestampMs > tServer.last
            /\ \A other \in DOMAIN tServer'.rows :
                 other # key =>
                   tServer'.rows[other].committedTimestampMs
                     # tServer'.rows[key].committedTimestampMs

AllReturned ==
  \A c \in Clients : \A key \in DOMAIN tServer.rows : ReturnedTo(c, tServer.rows[key])

\* C40: against the in-memory transport every push stamps its rows with
\* committed timestamps above all earlier ones, so a client that pulls
\* with the next_cursor of its previous page never skips a row: every row
\* the server holds was returned to the client or is still after its
\* cursor, and once the writes have stopped every row the server holds has
\* been returned to every client, also when the other client pushed
\* between two of its pages or cycles.
C40_NoRowSkipped ==
  /\ [](\A c \in sClients : NothingSkipped(c))
  /\ [](\A key \in DOMAIN tServer.rows :
          tServer.rows[key].committedTimestampMs <= tServer.last)
  /\ [][StampsGrow]_vars
  /\ gQuiet ~> [](AllReturned)

\* client A was returned a version of a row, client B's push replaced it
\* on the server, and a later pull of A, sent with a cursor, has returned
\* the version the server holds now
C40_Witness ==
  \E i \in 1 .. Len(sLoop["A"].queue), key \in DOMAIN tServer.rows :
    LET task == sLoop["A"].queue[i]
        row == tServer.rows[key]
    IN /\ task.kind = "cycle"
       /\ task.pc = "applyRemote"
       /\ task.response.changes = << row >>
       /\ row.hlcDeviceId = DevB
       /\ readCursor(sStore["A"].kv) # NoCursor
       /\ \E old \in tReturned["A"] :
            /\ rowKey(old.collectionId, old.id) = key
            /\ old.committedTimestampMs < row.committedTimestampMs

====
